---------------------------- MODULE Spec2Model ----------------------------
(***************************************************************************)
(* A model of the Coconut compiler core (src/coconut/compiler.py and       *)
(* src/coconut/compiler/util.py): the processor's per-parse state, the     *)
(* line remapping (adjust), the pre-processors (prepare, str_proc,         *)
(* passthrough_proc, ind_proc), the post-processors, the pattern-matching  *)
(* code generator and the computation graph.                               *)
(*                                                                         *)
(* Text is a sequence of one-character strings.  Python indices are        *)
(* 0-based: the character at Python index x of s is s[x+1].                *)
(***************************************************************************)
EXTENDS Integers, Sequences, FiniteSets, TLC

(***************************************************************************)
(* Program constants (src/coconut/compiler.py, CONSTANTS section).         *)
(***************************************************************************)
NL == "\n"
CR == "\r"
SP == " "
TAB == "\t"
FF == "\f"
BS == "\\"
HASH == "#"
SQ == "'"
DQ == "\""
hash_sep == "NUL"
openindent == "OPEN"
closeindent == "CLOSE"
strwrapper == SQ
unwrapper == "UNWRAP"
white == {SP, TAB, FF}
downs == {"(", "[", "{"}
ups == {")", "]", "}"}
holds == {SQ, DQ}
nums == {"0", "1", "2", "3", "4", "5", "6", "7", "8", "9"}
tablen == 4
tabworth == 8
None == "None"

(***************************************************************************)
(* Bounds of the model.                                                    *)
(***************************************************************************)
MaxLine == 5

(***************************************************************************)
(* State.                                                                  *)
(*   strict, version, using_autopep8 : the processor's configuration       *)
(*   indchar, refs, docstring, ichain_count, skips : its per-parse state   *)
(*   call : the method call in progress or just finished, with its         *)
(*          arguments, position and result                                 *)
(***************************************************************************)
VARIABLES strict, version, using_autopep8,
          indchar, refs, docstring, ichain_count, skips,
          call

config == <<strict, version, using_autopep8>>
perparse == <<indchar, refs, docstring, ichain_count, skips>>
vars == <<strict, version, using_autopep8, indchar, refs, docstring, ichain_count, skips, call>>

(***************************************************************************)
(* Generic helpers on text.                                                *)
(***************************************************************************)
\* Only({e(x) : x \in {v}}) is e(v), with v computed once
Only(S) == CHOOSE r \in S : TRUE

Max(a, b) == IF a >= b THEN a ELSE b

Min(a, b) == IF a <= b THEN a ELSE b

\* s[i:j] of Python (0-based, half-open), for 0 <= i and j <= len(s)
Slice(s, i, j) == IF j <= i THEN <<>> ELSE SubSeq(s, i + 1, j)

\* s.count(c, 0, loc)
CountUpTo(s, c, loc) == Cardinality({k \in 1..Min(loc, Len(s)) : s[k] = c})

Count(s, c) == CountUpTo(s, c, Len(s))

\* pyparsing's lineno(loc, strg): strg.count("\n", 0, loc) + 1
lineno(loc, strg) == CountUpTo(strg, NL, loc) + 1

RECURSIVE Repeat(_, _)
Repeat(c, n) == IF n <= 0 THEN <<>> ELSE <<c>> \o Repeat(c, n - 1)

Digit(d) == CASE d = 0 -> "0" [] d = 1 -> "1" [] d = 2 -> "2" [] d = 3 -> "3"
              [] d = 4 -> "4" [] d = 5 -> "5" [] d = 6 -> "6" [] d = 7 -> "7"
              [] d = 8 -> "8" [] OTHER -> "9"

DigitVal(c) == CASE c = "0" -> 0 [] c = "1" -> 1 [] c = "2" -> 2 [] c = "3" -> 3
                 [] c = "4" -> 4 [] c = "5" -> 5 [] c = "6" -> 6 [] c = "7" -> 7
                 [] c = "8" -> 8 [] OTHER -> 9

\* str(n) for a natural number n
RECURSIVE StrOfNat(_)
StrOfNat(n) == IF n < 10 THEN <<Digit(n)>> ELSE StrOfNat(n \div 10) \o <<Digit(n % 10)>>

\* int(s) for a non-empty sequence of digits
RECURSIVE IntOfStr(_)
IntOfStr(s) == IF Len(s) = 0 THEN 0
               ELSE 10 * IntOfStr(SubSeq(s, 1, Len(s) - 1)) + DigitVal(s[Len(s)])

(***************************************************************************)
(* processor.adjust (compiler.py 1247-1255): counts adj_ln upwards until   *)
(* ln lines that are not in self.skips have been passed.                   *)
(***************************************************************************)
RECURSIVE adjust_loop(_, _, _, _)
adjust_loop(sk, ln, adj_ln, i) ==
    IF i < ln
    THEN Only({ adjust_loop(sk, ln, a, IF a \notin sk THEN i + 1 ELSE i) : a \in {adj_ln + 1} })
    ELSE adj_ln

\* a variant that counts the skipped lines as well
adjust_ignoring_skips(sk, ln) == ln

\* a variant that adds the skips up to the parser line itself
adjust_count_upto_ln(sk, ln) == ln + Cardinality({s \in sk : s <= ln})

adjust(sk, ln) == adjust_loop(sk, ln, 0, 0)

(***************************************************************************)
(* addskip (compiler.py 487-495).                                          *)
(***************************************************************************)
addskip_ok(sk, skip) == skip >= 1 /\ skip \notin sk

\* a variant that leaves the skips as they are
addskip_nothing(sk, skip) == sk

addskip(sk, skip) == sk \cup {skip}

(***************************************************************************)
(* Python string methods used by the processors.                           *)
(***************************************************************************)
\* characters str.strip/lstrip/rstrip remove
py_whitespace == {SP, TAB, NL, CR, FF}

\* line boundaries of str.splitlines
py_linebreaks == {NL, CR, FF}

RECURSIVE lstrip(_)
lstrip(s) == IF Len(s) > 0 /\ s[1] \in py_whitespace THEN lstrip(Tail(s)) ELSE s

RECURSIVE rstrip(_)
rstrip(s) == IF Len(s) > 0 /\ s[Len(s)] \in py_whitespace
             THEN rstrip(SubSeq(s, 1, Len(s) - 1)) ELSE s

strip(s) == lstrip(rstrip(s))

RECURSIVE splitlines_from(_, _, _, _)
splitlines_from(s, i, cur, acc) ==
    IF i > Len(s) THEN (IF cur # <<>> THEN Append(acc, cur) ELSE acc)
    ELSE IF s[i] = CR /\ i < Len(s) /\ s[i + 1] = NL
         THEN splitlines_from(s, i + 2, <<>>, Append(acc, cur))
    ELSE IF s[i] \in py_linebreaks
         THEN splitlines_from(s, i + 1, <<>>, Append(acc, cur))
    ELSE splitlines_from(s, i + 1, Append(cur, s[i]), acc)

splitlines(s) == splitlines_from(s, 1, <<>>, <<>>)

RECURSIVE join(_, _)
join(sep, items) ==
    IF Len(items) = 0 THEN <<>>
    ELSE IF Len(items) = 1 THEN items[1]
    ELSE items[1] \o sep \o join(sep, Tail(items))

endswith(s, c) == Len(s) > 0 /\ s[Len(s)] = c

startswith(s, c) == Len(s) > 0 /\ s[1] = c

\* s.split("#", 1)[0]
RECURSIVE before_hash(_)
before_hash(s) == IF Len(s) = 0 \/ s[1] = HASH THEN <<>> ELSE <<s[1]>> \o before_hash(Tail(s))

(***************************************************************************)
(* count_end and change (compiler.py 497-514).                             *)
(***************************************************************************)
RECURSIVE count_end(_, _)
count_end(teststr, testchar) ==
    IF Len(teststr) > 0 /\ teststr[Len(teststr)] = testchar
    THEN 1 + count_end(SubSeq(teststr, 1, Len(teststr) - 1), testchar)
    ELSE 0

change_char(c) == IF c \in downs THEN -1 ELSE IF c \in ups THEN 1 ELSE 0

RECURSIVE change(_)
change(inputstring) ==
    IF Len(inputstring) = 0 THEN 0
    ELSE change_char(inputstring[1]) + change(Tail(inputstring))

(***************************************************************************)
(* The side table: add_ref, wrap_str, wrap_comment, wrap_passthrough       *)
(* (compiler.py 1273-1306).  A string ref is the tuple (text, strchar,     *)
(* multiline); a comment or passthrough ref is the bare text.              *)
(***************************************************************************)
str_ref(text, strchar, multiline) ==
    [isstr |-> TRUE, text |-> text, strchar |-> strchar, multiline |-> multiline]

text_ref(text) ==
    [isstr |-> FALSE, text |-> text, strchar |-> "", multiline |-> FALSE]

\* refs.index(ref), 0-based; Len(rs) when ref is not in rs
ref_index(rs, ref) ==
    IF \E i \in 1..Len(rs) : rs[i] = ref
    THEN (CHOOSE i \in 1..Len(rs) : rs[i] = ref /\ \A j \in 1..(i - 1) : rs[j] # ref) - 1
    ELSE Len(rs)

add_ref_refs(rs, ref) == IF ref_index(rs, ref) = Len(rs) THEN Append(rs, ref) ELSE rs

add_ref(rs, ref) == StrOfNat(ref_index(rs, ref))

wrap_str(rs, text, strchar, multiline) ==
    <<strwrapper>> \o add_ref(rs, str_ref(text, strchar, multiline)) \o <<unwrapper>>

wrap_comment(rs, text) == <<HASH>> \o add_ref(rs, text_ref(text)) \o <<unwrapper>>

passthrough_text(text, multiline) == IF multiline THEN text ELSE lstrip(text)

\* a variant with the backslashes of the two kinds exchanged
wrap_passthrough_exchanged(rs, text, multiline) ==
    (IF multiline THEN <<BS, BS>> ELSE <<BS>>)
        \o add_ref(rs, text_ref(passthrough_text(text, multiline)))
        \o <<unwrapper>>
        \o (IF multiline THEN <<>> ELSE <<NL>>)

wrap_passthrough(rs, text, multiline) ==
    (IF multiline THEN <<BS>> ELSE <<BS, BS>>)
        \o add_ref(rs, text_ref(passthrough_text(text, multiline)))
        \o <<unwrapper>>
        \o (IF multiline THEN <<>> ELSE <<NL>>)

(***************************************************************************)
(* Errors: make_err (compiler.py 1264-1271) with the line number it        *)
(* reports; sk is self.skips at the time of the call.                      *)
(***************************************************************************)
NoErr == [type |-> "none", msg |-> "", ln |-> 0]

make_err(sk, errtype, message, original, location) ==
    [type |-> errtype, msg |-> message, ln |-> adjust(sk, lineno(location, original))]

make_err_ln(errtype, message, ln) == [type |-> errtype, msg |-> message, ln |-> ln]

addskip_err(sk, skip) ==
    [type |-> "CoconutException",
     msg |-> IF skip < 1 THEN "invalid skip of line" ELSE "duplicate skip of line",
     ln |-> skip]

(***************************************************************************)
(* processor.prepare (compiler.py 1388-1392).                              *)
(***************************************************************************)
prepare(inputstring, dostrip) ==
    join(<<NL>>, splitlines(IF dostrip THEN strip(inputstring) ELSE inputstring))

(***************************************************************************)
(* processor.str_proc (compiler.py 1394-1486).  The loop state is          *)
(*   x      the index of the next character (x = len reads a final "\n")   *)
(*   out    the output so far                                              *)
(*   found  the quotes that may start a string (<<>> is None)              *)
(*   hold   the comment or string being read: k = "none" (hold is None),   *)
(*          "comment" (hold = [_comment]) or "string" (hold = [_contents,  *)
(*          _start, _stop], stop = <<>> is None)                           *)
(*   sk     the local copy of self.skips                                   *)
(*   rs     self.refs (add_ref appends in place)                           *)
(*   err    the error raised, if any                                       *)
(* self_sk is self.skips, which make_err and adjust read.                  *)
(***************************************************************************)
hold_none == [k |-> "none", contents |-> <<>>, start |-> <<>>, stop |-> <<>>]

hold_comment(text) == [k |-> "comment", contents |-> text, start |-> <<>>, stop |-> <<>>]

hold_string(contents, start, stop) ==
    [k |-> "string", contents |-> contents, start |-> start, stop |-> stop]

str_raise(st, self_sk, inputstring, message) ==
    [st EXCEPT !.err = make_err(self_sk, "CoconutSyntaxError", message, inputstring, st.x)]

\* skips = addskip(skips, self.adjust(lineno(x, inputstring)))
str_addskip(st, self_sk, inputstring) ==
    LET skip == adjust(self_sk, lineno(st.x, inputstring))
    IN  IF addskip_ok(st.sk, skip)
        THEN [st EXCEPT !.sk = addskip(st.sk, skip), !.added = st.added + 1]
        ELSE [st EXCEPT !.err = addskip_err(st.sk, skip)]

\* a variant that lets a line break into every string
str_linebreak_any(st, self_sk, inputstring, c) ==
    IF c = NL THEN str_addskip(st, self_sk, inputstring) ELSE st

\* the "\n" inside a string: an error in a non-multiline string, else a skip
str_linebreak(st, self_sk, inputstring, c) ==
    IF c = NL
    THEN IF Len(st.hold.start) = 1
         THEN str_raise(st, self_sk, inputstring, "linebreak in non-multiline string")
         ELSE str_addskip(st, self_sk, inputstring)
    ELSE st

str_step_comment(st, c) ==
    IF c = NL
    THEN [st EXCEPT !.out = st.out \o wrap_comment(st.rs, st.hold.contents) \o <<c>>,
                    !.rs = add_ref_refs(st.rs, text_ref(st.hold.contents)),
                    !.hold = hold_none]
    ELSE [st EXCEPT !.hold.contents = st.hold.contents \o <<c>>]

\* hold[_stop] is not None
str_step_stop(st, self_sk, inputstring, c) ==
    LET h == st.hold
    IN  IF c = BS
        THEN [st EXCEPT !.hold = hold_string(h.contents \o h.stop \o <<c>>, h.start, <<>>)]
        ELSE IF c = h.start[1]
        THEN [st EXCEPT !.hold.stop = h.stop \o <<c>>]
        ELSE IF Len(h.stop) > Len(h.start)
        THEN str_raise(st, self_sk, inputstring, "invalid number of string closes")
        ELSE IF h.stop = h.start
        THEN [st EXCEPT !.out = st.out \o wrap_str(st.rs, h.contents, h.start[1], TRUE),
                        !.rs = add_ref_refs(st.rs, str_ref(h.contents, h.start[1], TRUE)),
                        !.hold = hold_none,
                        !.x = st.x - 1]
        ELSE LET st1 == str_linebreak(st, self_sk, inputstring, c)
             IN  IF st1.err # NoErr THEN st1
                 ELSE [st1 EXCEPT !.hold = hold_string(h.contents \o h.stop \o <<c>>, h.start, <<>>)]

\* hold is a string and hold[_stop] is None
str_step_string(st, self_sk, inputstring, c) ==
    LET h == st.hold
    IN  IF count_end(h.contents, BS) % 2 = 1
        THEN LET st1 == IF c = NL THEN str_addskip(st, self_sk, inputstring) ELSE st
             IN  IF st1.err # NoErr THEN st1
                 ELSE [st1 EXCEPT !.hold.contents = h.contents \o <<c>>]
        ELSE IF <<c>> = h.start
        THEN [st EXCEPT !.out = st.out \o wrap_str(st.rs, h.contents, h.start[1], FALSE),
                        !.rs = add_ref_refs(st.rs, str_ref(h.contents, h.start[1], FALSE)),
                        !.hold = hold_none]
        ELSE IF c = h.start[1]
        THEN [st EXCEPT !.hold.stop = <<c>>]
        ELSE LET st1 == str_linebreak(st, self_sk, inputstring, c)
             IN  IF st1.err # NoErr THEN st1
                 ELSE [st1 EXCEPT !.hold.contents = h.contents \o <<c>>]

\* found is not None
str_step_found(st, self_sk, inputstring, c) ==
    LET f == st.found
    IN  IF c = f[1]
        THEN [st EXCEPT !.found = f \o <<c>>]
        ELSE IF Len(f) = 1
        THEN IF c = NL
             THEN str_raise(st, self_sk, inputstring, "linebreak in non-multiline string")
             ELSE [st EXCEPT !.hold = hold_string(<<c>>, f, <<>>), !.found = <<>>]
        ELSE IF Len(f) = 2
        THEN [st EXCEPT !.out = st.out \o wrap_str(st.rs, <<>>, f[1], FALSE),
                        !.rs = add_ref_refs(st.rs, str_ref(<<>>, f[1], FALSE)),
                        !.found = <<>>,
                        !.x = st.x - 1]
        ELSE IF Len(f) = 3
        THEN LET st1 == IF c = NL THEN str_addskip(st, self_sk, inputstring) ELSE st
             IN  IF st1.err # NoErr THEN st1
                 ELSE [st1 EXCEPT !.hold = hold_string(<<c>>, f, <<>>), !.found = <<>>]
        ELSE str_raise(st, self_sk, inputstring, "invalid number of string starts")

str_step(st, self_sk, inputstring) ==
    LET c == IF st.x = Len(inputstring) THEN NL ELSE inputstring[st.x + 1]
        st1 == IF st.hold.k = "comment" THEN str_step_comment(st, c)
               ELSE IF st.hold.k = "string" /\ st.hold.stop # <<>>
                    THEN str_step_stop(st, self_sk, inputstring, c)
               ELSE IF st.hold.k = "string"
                    THEN str_step_string(st, self_sk, inputstring, c)
               ELSE IF st.found # <<>>
                    THEN str_step_found(st, self_sk, inputstring, c)
               ELSE IF c = HASH THEN [st EXCEPT !.hold = hold_comment(<<>>)]
               ELSE IF c \in holds THEN [st EXCEPT !.found = <<c>>]
               ELSE [st EXCEPT !.out = st.out \o <<c>>]
    IN  IF st1.err # NoErr THEN st1 ELSE [st1 EXCEPT !.x = st1.x + 1]

RECURSIVE str_loop(_, _, _)
str_loop(st0, self_sk, inputstring) ==
    Only({ IF st.err # NoErr THEN st
           ELSE IF st.x <= Len(inputstring)
                THEN str_loop(str_step(st, self_sk, inputstring), self_sk, inputstring)
           ELSE IF st.hold.k # "none" \/ st.found # <<>>
                THEN str_raise(st, self_sk, inputstring, "unclosed string")
           ELSE st : st \in {st0} })

str_init(self_sk, rs) ==
    [x |-> 0, out |-> <<>>, found |-> <<>>, hold |-> hold_none,
     sk |-> self_sk, rs |-> rs, err |-> NoErr, added |-> 0]

\* the result of a processor: ok, the returned text, self.skips and self.refs
\* afterwards, the error raised (when not ok)
proc_result(ok, out, sk, rs, err) ==
    [ok |-> ok, out |-> out, skips |-> sk, refs |-> rs, err |-> err]

str_proc(inputstring, self_sk, rs) ==
    Only({ IF st.err # NoErr
           THEN proc_result(FALSE, <<>>, self_sk, st.rs, st.err)
           ELSE proc_result(TRUE, st.out, st.sk, st.rs, NoErr)
           : st \in {str_loop(str_init(self_sk, rs), self_sk, inputstring)} })

(***************************************************************************)
(* processor.passthrough_proc (compiler.py 1488-1532).  The loop state is  *)
(*   found  k = "none" (None), "true" (a backslash was seen) or "text"     *)
(*          (the contents of the passthrough so far)                       *)
(*   hold   the character that ends the passthrough (<<>> is None)         *)
(*   count  the parenthetical level, multiline  the kind of passthrough    *)
(***************************************************************************)
found_none == [k |-> "none", text |-> <<>>]

found_true == [k |-> "true", text |-> <<>>]

found_text(text) == [k |-> "text", text |-> text]

pass_addskip(st, self_sk, inputstring) ==
    LET skip == adjust(self_sk, lineno(st.x, inputstring))
    IN  IF addskip_ok(st.sk, skip)
        THEN [st EXCEPT !.sk = addskip(st.sk, skip)]
        ELSE [st EXCEPT !.err = addskip_err(st.sk, skip)]

pass_step_hold(st, self_sk, inputstring, c) ==
    LET count == st.count + change_char(c)
    IN  IF count >= 0 /\ <<c>> = st.hold
        THEN [st EXCEPT !.out = st.out \o wrap_passthrough(st.rs, st.found.text, st.multiline),
                        !.rs = add_ref_refs(st.rs, text_ref(passthrough_text(st.found.text, st.multiline))),
                        !.found = found_none,
                        !.hold = <<>>,
                        !.count = 0,
                        !.multiline = FALSE]
        ELSE LET st1 == IF c = NL THEN pass_addskip(st, self_sk, inputstring) ELSE st
             IN  IF st1.err # NoErr THEN st1
                 ELSE [st1 EXCEPT !.count = count, !.found = found_text(st.found.text \o <<c>>)]

pass_step_found(st, c) ==
    IF c = BS
    THEN [st EXCEPT !.found = found_text(<<>>), !.hold = <<NL>>, !.count = 0, !.multiline = FALSE]
    ELSE IF c = "("
    THEN [st EXCEPT !.found = found_text(<<>>), !.hold = <<")">>, !.count = -1, !.multiline = TRUE]
    ELSE [st EXCEPT !.out = st.out \o <<BS, c>>, !.found = found_none]

pass_step(st, self_sk, inputstring) ==
    LET c == inputstring[st.x + 1]
        st1 == IF st.hold # <<>> THEN pass_step_hold(st, self_sk, inputstring, c)
               ELSE IF st.found.k = "true" THEN pass_step_found(st, c)
               ELSE IF c = BS THEN [st EXCEPT !.found = found_true]
               ELSE [st EXCEPT !.out = st.out \o <<c>>]
    IN  IF st1.err # NoErr THEN st1 ELSE [st1 EXCEPT !.x = st1.x + 1]

RECURSIVE pass_loop(_, _, _)
pass_loop(st0, self_sk, inputstring) ==
    Only({ IF st.err # NoErr THEN st
           ELSE IF st.x < Len(inputstring)
                THEN pass_loop(pass_step(st, self_sk, inputstring), self_sk, inputstring)
           ELSE IF st.hold # <<>> \/ st.found.k # "none"
                \* x is the last index of the loop
                THEN [st EXCEPT !.err = make_err(self_sk, "CoconutSyntaxError", "unclosed passthrough",
                                                 inputstring, Len(inputstring) - 1)]
           ELSE st : st \in {st0} })

pass_init(self_sk, rs) ==
    [x |-> 0, out |-> <<>>, found |-> found_none, hold |-> <<>>, count |-> 0,
     multiline |-> FALSE, sk |-> self_sk, rs |-> rs, err |-> NoErr]

passthrough_proc(inputstring, self_sk, rs) ==
    Only({ IF st.err # NoErr
           THEN proc_result(FALSE, <<>>, self_sk, st.rs, st.err)
           ELSE proc_result(TRUE, st.out, st.sk, st.rs, NoErr)
           : st \in {pass_loop(pass_init(self_sk, rs), self_sk, inputstring)} })

(***************************************************************************)
(* passthrough_repl, str_repl and repl_proc (compiler.py 1636-1712).       *)
(* The result is [ok, out]; ok is FALSE when a CoconutException (or an     *)
(* IndexError of self.refs) is raised.                                     *)
(***************************************************************************)
repl_fail == [ok |-> FALSE, out |-> <<>>]

\* index is <<>> for "" ; hasindex is FALSE for index None
RECURSIVE passthrough_repl_loop(_, _, _, _, _, _)
passthrough_repl_loop(rs, inputstring, x0, out0, hasindex, index0) ==
    Only({
        IF x > Len(inputstring) THEN [ok |-> TRUE, out |-> out]
        ELSE
        LET atend == x = Len(inputstring)
            c == IF atend THEN None ELSE inputstring[x + 1]
        IN  IF hasindex
            THEN IF ~atend /\ c \in nums
                 THEN passthrough_repl_loop(rs, inputstring, x + 1, out, TRUE, index \o <<c>>)
                 ELSE IF ~atend /\ c = unwrapper /\ index # <<>>
                 THEN IF IntOfStr(index) >= Len(rs) \/ rs[IntOfStr(index) + 1].isstr
                      THEN repl_fail
                      ELSE passthrough_repl_loop(rs, inputstring, x + 1,
                                                 out \o rs[IntOfStr(index) + 1].text, FALSE, <<>>)
                 ELSE IF atend \/ c # BS \/ index # <<>>
                 THEN passthrough_repl_loop(rs, inputstring, x + 1,
                                            out \o <<BS>> \o index \o (IF atend THEN <<>> ELSE <<c>>),
                                            FALSE, <<>>)
                 ELSE passthrough_repl_loop(rs, inputstring, x + 1, out, TRUE, index)
            ELSE IF atend THEN passthrough_repl_loop(rs, inputstring, x + 1, out, FALSE, <<>>)
            ELSE IF c = BS THEN passthrough_repl_loop(rs, inputstring, x + 1, out, TRUE, <<>>)
            ELSE passthrough_repl_loop(rs, inputstring, x + 1, out \o <<c>>, FALSE, <<>>)
        : x \in {x0}, out \in {out0}, index \in {index0} })

passthrough_repl(rs, inputstring) == passthrough_repl_loop(rs, inputstring, 0, <<>>, FALSE, <<>>)

\* a variant that closes every string with one quote
ref_quotes_single(strchar, multiline) == <<strchar>>

\* the quotes put back around a string: strchar*3 when multiline
ref_quotes(strchar, multiline) ==
    IF multiline THEN <<strchar, strchar, strchar>> ELSE <<strchar>>

\* mode is "none", "comment" or "string"; index is the digits read so far
RECURSIVE str_repl_loop(_, _, _, _, _, _)
str_repl_loop(rs, inputstring, x0, out0, mode, index0) ==
    Only({
        IF x > Len(inputstring) THEN [ok |-> TRUE, out |-> out]
        ELSE
        LET atend == x = Len(inputstring)
            c == IF atend THEN None ELSE inputstring[x + 1]
        IN  IF mode = "comment"
            THEN IF ~atend /\ c \in nums
                 THEN str_repl_loop(rs, inputstring, x + 1, out, mode, index \o <<c>>)
                 ELSE IF ~atend /\ c = unwrapper /\ index # <<>>
                 THEN IF IntOfStr(index) >= Len(rs) \/ rs[IntOfStr(index) + 1].isstr
                      THEN repl_fail
                      ELSE str_repl_loop(rs, inputstring, x + 1,
                                         out \o (IF out # <<>> /\ ~endswith(out, NL) THEN <<SP>> ELSE <<>>)
                                             \o <<HASH>> \o rs[IntOfStr(index) + 1].text,
                                         "none", <<>>)
                 ELSE repl_fail
            ELSE IF mode = "string"
            THEN IF ~atend /\ c \in nums
                 THEN str_repl_loop(rs, inputstring, x + 1, out, mode, index \o <<c>>)
                 ELSE IF ~atend /\ c = unwrapper /\ index # <<>>
                 THEN IF IntOfStr(index) >= Len(rs) \/ ~rs[IntOfStr(index) + 1].isstr
                      THEN repl_fail
                      ELSE LET ref == rs[IntOfStr(index) + 1]
                               q == ref_quotes(ref.strchar, ref.multiline)
                           IN  str_repl_loop(rs, inputstring, x + 1, out \o q \o ref.text \o q, "none", <<>>)
                 ELSE repl_fail
            ELSE IF atend THEN str_repl_loop(rs, inputstring, x + 1, out, mode, index)
            ELSE IF c = HASH THEN str_repl_loop(rs, inputstring, x + 1, out, "comment", <<>>)
            ELSE IF c = strwrapper THEN str_repl_loop(rs, inputstring, x + 1, out, "string", <<>>)
            ELSE str_repl_loop(rs, inputstring, x + 1, out \o <<c>>, mode, index)
        : x \in {x0}, out \in {out0}, index \in {index0} })

str_repl(rs, inputstring) == str_repl_loop(rs, inputstring, 0, <<>>, "none", <<>>)

repl_proc(rs, inputstring) ==
    Only({ IF p.ok THEN str_repl(rs, p.out) ELSE repl_fail
           : p \in {passthrough_repl(rs, inputstring)} })

(***************************************************************************)
(* processor.leading (compiler.py 1534-1553): counts the leading           *)
(* whitespace of a line, sets self.indchar at the first space or tab, and  *)
(* on a character that differs from self.indchar raises (strict) or warns. *)
(* The state is [x, count, indchar, warned, err].                          *)
(***************************************************************************)
RECURSIVE leading_loop(_, _, _, _)
leading_loop(st0, inputstring, self_sk, is_strict) ==
    Only({
        IF st.err # NoErr \/ st.x >= Len(inputstring) THEN st
        ELSE
        LET c == inputstring[st.x + 1]
        IN  IF c # SP /\ c # TAB THEN st
            ELSE
            LET ind == IF st.indchar = None THEN c ELSE st.indchar
                cnt == IF c = SP THEN st.count + 1
                       ELSE st.count + (tabworth - (st.x % tabworth))
            IN  IF ind # c
                THEN IF is_strict
                     THEN [st EXCEPT !.indchar = ind,
                                     !.err = make_err(self_sk, "CoconutStyleError",
                                                      "found mixing of tabs and spaces", inputstring, st.x)]
                     ELSE leading_loop([x |-> st.x + 1, count |-> cnt, indchar |-> ind,
                                        warned |-> TRUE, err |-> NoErr],
                                       inputstring, self_sk, is_strict)
                ELSE leading_loop([st EXCEPT !.x = st.x + 1, !.count = cnt, !.indchar = ind],
                                  inputstring, self_sk, is_strict)
        : st \in {st0} })

leading(inputstring, ind, self_sk, is_strict) ==
    leading_loop([x |-> 0, count |-> 0, indchar |-> ind, warned |-> FALSE, err |-> NoErr],
                 inputstring, self_sk, is_strict)

(***************************************************************************)
(* processor.ind_proc (compiler.py 1555-1617).  The loop state is          *)
(*   ln       the number of lines read                                     *)
(*   new      the output lines                                             *)
(*   levels   the enclosing indentation levels                             *)
(*   count    the parenthetical level (negative inside brackets)           *)
(*   current  the current indentation level (no_current is None)           *)
(*   sk       the local copy of self.skips                                 *)
(*   indchar  self.indchar, warned: whether a warning was shown            *)
(***************************************************************************)
no_current == -1

\* a variant that forgets the level being left
dedent_closes_without_current(levels, point) == Len(levels) - point

\* the number of closeindents a dedent to levels[point-1] emits
dedent_closes(levels, point) == Len(levels) - point + 1

\* levels.index(check) + 1
level_point(levels, check) == CHOOSE i \in 1..Len(levels) : levels[i] = check

in_levels(levels, check) == \E i \in 1..Len(levels) : levels[i] = check

ind_addskip(st, self_sk, ln) ==
    LET skip == adjust(self_sk, ln)
    IN  IF addskip_ok(st.sk, skip)
        THEN [st EXCEPT !.sk = addskip(st.sk, skip)]
        ELSE [st EXCEPT !.err = addskip_err(st.sk, skip)]

\* the line number of the illegal dedent error: self.adjust(ln)
dedent_err_ln(self_sk, ln) == adjust(self_sk, ln)

\* the last branch of the loop: the line opens, keeps or closes a level
ind_indent_at(st, line, ln, self_sk, ld) ==
    LET check == ld.count
        st1 == [st EXCEPT !.indchar = ld.indchar, !.warned = st.warned \/ ld.warned]
    IN  IF ld.err # NoErr THEN [st1 EXCEPT !.err = ld.err]
        ELSE IF st.current = no_current
        THEN IF check # 0
             THEN [st1 EXCEPT !.err = make_err_ln("CoconutSyntaxError", "illegal initial indent",
                                                  adjust(self_sk, ln))]
             ELSE [st1 EXCEPT !.current = 0, !.new = Append(st.new, line),
                              !.count = st.count + change(line)]
        ELSE IF check > st.current
        THEN [st1 EXCEPT !.levels = Append(st.levels, st.current),
                         !.current = check,
                         !.new = Append(st.new, <<openindent>> \o line),
                         !.count = st.count + change(line)]
        ELSE IF in_levels(st.levels, check)
        THEN LET point == level_point(st.levels, check)
             IN  [st1 EXCEPT !.levels = SubSeq(st.levels, 1, point - 1),
                             !.current = st.levels[point],
                             !.new = Append(st.new,
                                            Repeat(closeindent, dedent_closes(st.levels, point)) \o line),
                             !.count = st.count + change(line)]
        ELSE IF st.current # check
        THEN [st1 EXCEPT !.err = make_err_ln("CoconutSyntaxError",
                                             "illegal dedent to unused indentation level",
                                             dedent_err_ln(self_sk, ln))]
        ELSE [st1 EXCEPT !.new = Append(st.new, line), !.count = st.count + change(line)]

\* check = self.leading(line), then the branch
ind_indent(st, line, ln, self_sk, is_strict) ==
    Only({ ind_indent_at(st, line, ln, self_sk, ld)
           : ld \in {leading(line, st.indchar, self_sk, is_strict)} })

ind_step(st, lines, self_sk, is_strict) ==
    LET ln == st.ln + 1
        raw == lines[ln]
        trailing == Len(raw) > 0 /\ raw[Len(raw)] \in white
        line == IF trailing THEN rstrip(raw) ELSE raw
        hasnew == Len(st.new) > 0
        last == IF hasnew THEN rstrip(before_hash(st.new[Len(st.new)])) ELSE <<>>
        st0 == [st EXCEPT !.ln = ln]
    IN  IF trailing /\ is_strict
        THEN [st0 EXCEPT !.err = make_err_ln("CoconutStyleError", "found trailing whitespace",
                                             adjust(self_sk, ln))]
        ELSE IF Len(line) = 0 \/ startswith(lstrip(line), HASH)
        THEN IF st.count >= 0
             THEN [st0 EXCEPT !.new = Append(st.new, line), !.count = st.count + change(line)]
             ELSE LET st1 == ind_addskip(st0, self_sk, ln)
                  IN  IF st1.err # NoErr THEN st1
                      ELSE [st1 EXCEPT !.count = st.count + change(line)]
        ELSE IF hasnew /\ endswith(last, BS)
        THEN IF is_strict
             THEN [st0 EXCEPT !.err = make_err_ln("CoconutStyleError", "found backslash continuation",
                                                  adjust(self_sk, ln - 1))]
             ELSE LET st1 == ind_addskip(st0, self_sk, ln)
                  IN  IF st1.err # NoErr THEN st1
                      ELSE [st1 EXCEPT !.new[Len(st.new)] = SubSeq(last, 1, Len(last) - 1) \o <<SP>> \o line,
                                       !.count = st.count + change(line)]
        ELSE IF st.count < 0
        THEN LET st1 == ind_addskip(st0, self_sk, ln)
             IN  IF st1.err # NoErr THEN st1
                 ELSE [st1 EXCEPT !.new[Len(st.new)] = last \o <<SP>> \o line,
                                  !.count = st.count + change(line)]
        ELSE ind_indent(st0, line, ln, self_sk, is_strict)

RECURSIVE ind_loop(_, _, _, _)
ind_loop(st0, lines, self_sk, is_strict) ==
    Only({ IF st.err # NoErr \/ st.ln >= Len(lines) THEN st
           ELSE ind_loop(ind_step(st, lines, self_sk, is_strict), lines, self_sk, is_strict)
           : st \in {st0} })

ind_init(self_sk, ind) ==
    [ln |-> 0, new |-> <<>>, levels |-> <<>>, count |-> 0, current |-> no_current,
     sk |-> self_sk, indchar |-> ind, warned |-> FALSE, err |-> NoErr]

\* the result: ok, out, self.skips and self.indchar afterwards, the error,
\* whether a warning was shown
ind_result(ok, out, sk, ind, err, warned) ==
    [ok |-> ok, out |-> out, skips |-> sk, indchar |-> ind, err |-> err, warned |-> warned]

ind_final(st, self_sk) ==
    LET hasnew == Len(st.new) > 0
        last == IF hasnew THEN rstrip(before_hash(st.new[Len(st.new)])) ELSE <<>>
    IN  IF st.err # NoErr
        THEN ind_result(FALSE, <<>>, self_sk, st.indchar, st.err, st.warned)
        \* self.skips = skips precedes the two final checks
        ELSE IF hasnew /\ endswith(last, BS)
        THEN ind_result(FALSE, <<>>, st.sk, st.indchar,
                        make_err_ln("CoconutSyntaxError", "illegal final backslash continuation",
                                    adjust(st.sk, Len(st.new))),
                        st.warned)
        ELSE IF hasnew /\ st.count # 0
        THEN ind_result(FALSE, <<>>, st.sk, st.indchar,
                        make_err_ln("CoconutSyntaxError", "unclosed parenthetical",
                                    adjust(st.sk, Len(st.new))),
                        st.warned)
        ELSE ind_result(TRUE, join(<<NL>>, Append(st.new, Repeat(closeindent, Len(st.levels)))),
                        st.sk, st.indchar, NoErr, st.warned)

ind_proc(inputstring, self_sk, ind, is_strict) ==
    Only({ ind_final(st, self_sk)
           : st \in { Only({ ind_loop(ind_init(self_sk, ind), lines, self_sk, is_strict)
                             : lines \in {splitlines(inputstring)} }) } })

(***************************************************************************)
(* The processor after construction: __init__ ends with clean().           *)
(***************************************************************************)
clean_indchar == None
clean_refs == <<>>
clean_docstring == <<>>
clean_ichain_count == 0
clean_skips == {}

IsClean ==
    /\ indchar = clean_indchar
    /\ refs = clean_refs
    /\ docstring = clean_docstring
    /\ ichain_count = clean_ichain_count
    /\ skips = clean_skips

NoCall == [op |-> "none"]

(***************************************************************************)
(* genhash (compiler.py 1241-1245).  The input of the checksum is the      *)
(* string hash_sep.join(str(item) for item in (VERSION_STR, self.version,  *)
(* self.using_autopep8, package, code)).  crc32 is not computed: the hash  *)
(* is the term that names the input it is computed from.                   *)
(***************************************************************************)
VERSION_STR == "VERSION_STR"

versions == {None, "2", "3"}

\* str(True), str(False)
bool_str(b) == IF b THEN "True" ELSE "False"

\* "".join(chars)
RECURSIVE cat(_)
cat(chars) == IF Len(chars) = 0 THEN "" ELSE chars[1] \o cat(Tail(chars))

genhash_input(version_str, ver, autopep8, package, code) ==
    version_str \o hash_sep \o ver \o hash_sep \o bool_str(autopep8)
        \o hash_sep \o bool_str(package) \o hash_sep \o cat(code)

\* hex(checksum(...) & 0xffffffff)
checksum_hex(input) == "hex(crc32(" \o input \o ") & 0xffffffff)"

genhash(ver, autopep8, package, code) ==
    checksum_hex(genhash_input(VERSION_STR, ver, autopep8, package, code))

\* the input of the checksum in a compilation c: genhash reads self.version
\* and self.using_autopep8 of the processor and is passed package and code
compilation_hash_input(c) ==
    genhash_input(c.version_str, c.version, c.using_autopep8, c.package, c.text)

(***************************************************************************)
(* getheader (compiler.py 269-481).  A header is a sequence of tokens: the *)
(* line ends are "\n" as in the text, every other stretch of the constant  *)
(* text is one token.                                                      *)
(***************************************************************************)
hash_prefix == "# __coconut_hash__ = "

shebang(ver) == IF ver = None THEN "#!/usr/bin/env python"
                ELSE IF ver = "2" THEN "#!/usr/bin/env python2"
                ELSE "#!/usr/bin/env python3"

coding_line == "# -*- coding: UTF-8 -*-"

compiled_with_line == "# Compiled with Coconut version VERSION_STR"

package_docstring == "\"\"\"Built-in Coconut functions.\"\"\""

coconut_header_line == "# Coconut Header: ---"

future_import_line == "from __future__ import print_function, absolute_import, unicode_literals, division"

module_imports(ver) == "import sys as _coconut_sys ... from __coconut__ import ... (" \o ver \o ")"

class_coconut(ver) == "import sys as _coconut_sys ... class __coconut__ ... (" \o ver \o ")"

compiled_coconut_line == "# Compiled Coconut: ---"

header_kinds == {"none", "initial", "package", "code", "file", "module"}

\* getheader raises CoconutException
getheader_raises(which, usehash) ==
    \/ (which \notin {"none", "initial", "package"} /\ usehash # None)
    \/ which \notin header_kinds

getheader_initial(which, ver, usehash) ==
    IF which \in {"initial", "package"}
    THEN <<shebang(ver), NL, coding_line, NL>>
             \o (IF usehash # None THEN <<hash_prefix, usehash, NL>> ELSE <<>>)
             \o <<NL, compiled_with_line, NL, NL>>
             \o (IF which = "package" THEN <<package_docstring, NL, NL>> ELSE <<>>)
    ELSE <<>>

getheader_code(which, ver) ==
    IF which # "initial"
    THEN <<coconut_header_line, NL, NL>>
             \o (IF ver # "3" THEN <<future_import_line, NL>> ELSE <<>>)
             \o (IF which = "module" THEN <<module_imports(ver), NL>>
                 ELSE <<class_coconut(ver), NL>>)
             \o (IF which \in {"file", "module"}
                 THEN <<NL, compiled_coconut_line, NL, NL>> ELSE <<>>)
    ELSE <<>>

getheader(which, ver, usehash) ==
    IF which = "none" THEN <<>>
    ELSE getheader_initial(which, ver, usehash) \o getheader_code(which, ver)

(***************************************************************************)
(* The post-processors reind_proc, header_proc and polish                  *)
(* (compiler.py 1619-1634, 1714-1720).                                     *)
(***************************************************************************)
\* the while loop of reind_proc: [level, line] after the leading indents
\* a variant that does not lower the level at a closeindent
RECURSIVE reind_line_keep_level(_, _)
reind_line_keep_level(level, line) ==
    IF startswith(line, openindent) THEN reind_line_keep_level(level + 1, Tail(line))
    ELSE IF startswith(line, closeindent) THEN reind_line_keep_level(level, Tail(line))
    ELSE [level |-> level, line |-> line]

RECURSIVE reind_line(_, _)
reind_line(level, line) ==
    IF startswith(line, openindent) THEN reind_line(level + 1, Tail(line))
    ELSE IF startswith(line, closeindent) THEN reind_line(level - 1, Tail(line))
    ELSE [level |-> level, line |-> line]

RECURSIVE reind_lines(_, _, _, _)
reind_lines(lines, i, level, out) ==
    IF i > Len(lines) THEN out
    ELSE Only({ reind_lines(lines, i + 1, r.level,
                            Append(out, IF Len(r.line) > 0 /\ ~startswith(r.line, HASH)
                                        THEN Repeat(SP, tablen * r.level) \o r.line
                                        ELSE r.line))
                : r \in {reind_line(level, strip(lines[i]))} })

reind_proc(inputstring) == join(<<NL>>, reind_lines(splitlines(inputstring), 1, 0, <<>>))

header_proc(inputstring, doc, ver, header, initial, usehash) ==
    getheader(initial, ver, usehash) \o doc \o getheader(header, ver, None) \o inputstring

polish(inputstring) == join(<<NL>>, splitlines(rstrip(inputstring))) \o <<NL>>

(***************************************************************************)
(* The endpoints parse_single .. parse_debug (compiler.py 2625-2659): the  *)
(* keyword arguments each passes to pre and post.                          *)
(***************************************************************************)
parse_modes == {"parse_single", "parse_file", "parse_exec", "parse_module",
                "parse_block", "parse_eval", "parse_debug"}

\* preargs: {"strip": True} for parse_eval and parse_debug
preargs_strip(mode) == mode \in {"parse_eval", "parse_debug"}

\* a variant in which parse_exec keeps the default initial header
postargs_exec_initial(mode, usehash) ==
    IF mode = "parse_file" THEN [header |-> "file", initial |-> "initial", usehash |-> usehash]
    ELSE IF mode = "parse_module" THEN [header |-> "module", initial |-> "initial", usehash |-> usehash]
    ELSE IF mode = "parse_exec" THEN [header |-> "file", initial |-> "initial", usehash |-> None]
    ELSE [header |-> "none", initial |-> "none", usehash |-> None]

\* postargs, with the defaults of header_proc filled in
postargs(mode, usehash) ==
    IF mode = "parse_file" THEN [header |-> "file", initial |-> "initial", usehash |-> usehash]
    ELSE IF mode = "parse_module" THEN [header |-> "module", initial |-> "initial", usehash |-> usehash]
    ELSE IF mode = "parse_exec" THEN [header |-> "file", initial |-> "none", usehash |-> None]
    ELSE [header |-> "none", initial |-> "none", usehash |-> None]

\* usehash of parse_file (package False) and parse_module (package True)
endpoint_usehash(mode, addhash, ver, autopep8, inputstring) ==
    IF mode \in {"parse_file", "parse_module"} /\ addhash
    THEN genhash(ver, autopep8, mode = "parse_module", inputstring)
    ELSE None

(***************************************************************************)
(* Inputs of the pre-processing pipeline.                                  *)
(*                                                                         *)
(* SpecPre draws the source text as a sequence of logical lines (units),   *)
(* each one or two physical lines long, joined by "\n".                    *)
(* SpecMark draws it as a sequence of fragments (single characters and     *)
(* the triple quote).                                                      *)
(***************************************************************************)
MaxUnits == 3
MaxFrags == 4

\* text: the physical text of the unit; indent: the width of its leading
\* whitespace; height: the number of physical lines it spans
Units == {
    [text |-> <<"a">>, indent |-> 0, height |-> 1],
    [text |-> <<SP, "a">>, indent |-> 1, height |-> 1],
    [text |-> <<SP, SP, "a">>, indent |-> 2, height |-> 1],
    [text |-> <<TAB, "a">>, indent |-> 8, height |-> 1],
    [text |-> <<SQ, SQ, SQ, NL, SQ, SQ, SQ>>, indent |-> 0, height |-> 2],
    [text |-> <<SP, SP, SQ, SQ, SQ, NL, SQ, SQ, SQ>>, indent |-> 2, height |-> 2],
    [text |-> <<BS, "(", NL, ")">>, indent |-> 0, height |-> 2],
    [text |-> <<"a", BS, NL, SP, "a">>, indent |-> 0, height |-> 2],
    [text |-> <<SP, "(", NL, ")">>, indent |-> 1, height |-> 2] }

Frags == { <<"a">>, <<NL>>, <<CR>>, <<SQ>>, <<SQ, SQ, SQ>>, <<HASH>>, <<BS>> }

RECURSIVE flatten(_)
flatten(ss) == IF Len(ss) = 0 THEN <<>> ELSE ss[1] \o flatten(Tail(ss))

unit_texts(us) == [i \in 1..Len(us) |-> us[i].text]

NoReformat == [ok |-> FALSE, out |-> <<None>>]

\* a call of processor.pre (mode "pre") or of an endpoint (mode parse_*):
\* stage is the position in the call, text the value of out, post the
\* keyword arguments of post, prev the outcome of the call before
pre_call(original, us) ==
    [op |-> "pre", mode |-> "pre", stage |-> "prepare", original |-> original, units |-> us,
     text |-> original, marked |-> <<>>, err |-> NoErr, warned |-> FALSE,
     reformatted |-> NoReformat, post |-> postargs("pre", None), addhash |-> FALSE,
     prev |-> "none", outcome |-> "none"]

parse_call(mode, original, us, addhash, usehash, prev) ==
    [pre_call(original, us) EXCEPT !.mode = mode, !.post = postargs(mode, usehash),
                                   !.addhash = addhash, !.prev = prev]

InitProcessor ==
    /\ using_autopep8 = FALSE
    /\ indchar = clean_indchar
    /\ refs = clean_refs
    /\ docstring = clean_docstring
    /\ ichain_count = clean_ichain_count
    /\ skips = clean_skips

InitPre ==
    /\ InitProcessor
    /\ version = None
    /\ strict \in BOOLEAN
    /\ \E n \in 0..MaxUnits : \E us \in [1..n -> Units] :
           call = pre_call(join(<<NL>>, unit_texts(us)), us)

InitMark ==
    /\ InitProcessor
    /\ version = None
    /\ strict = FALSE
    /\ \E n \in 0..MaxFrags : \E fs \in [1..n -> Frags] :
           call = pre_call(flatten(fs), <<>>)

(***************************************************************************)
(* processor.pre (compiler.py 1324-1331): the pre-processors run in the    *)
(* order of self.preprocs, each on the output of the one before.  A        *)
(* pre-processor that raises ends the pipeline.                            *)
(***************************************************************************)
Prepare ==
    /\ call.op = "pre" /\ call.stage = "prepare"
    /\ call' = [call EXCEPT !.stage = "str_proc",
                             !.text = prepare(call.text, preargs_strip(call.mode))]
    /\ UNCHANGED <<config, perparse>>

StrProc ==
    /\ call.op = "pre" /\ call.stage = "str_proc"
    /\ \E r \in {str_proc(call.text, skips, refs)} :
           /\ refs' = r.refs
           /\ skips' = r.skips
           /\ call' = IF r.ok
                      THEN [call EXCEPT !.stage = "passthrough_proc", !.text = r.out, !.marked = r.out]
                      ELSE [call EXCEPT !.stage = "raised", !.err = r.err]
    /\ UNCHANGED <<config, indchar, docstring, ichain_count>>

PassthroughProc ==
    /\ call.op = "pre" /\ call.stage = "passthrough_proc"
    /\ \E r \in {passthrough_proc(call.text, skips, refs)} :
           /\ refs' = r.refs
           /\ skips' = r.skips
           /\ call' = IF r.ok
                      THEN [call EXCEPT !.stage = "ind_proc", !.text = r.out]
                      ELSE [call EXCEPT !.stage = "raised", !.err = r.err]
    /\ UNCHANGED <<config, indchar, docstring, ichain_count>>

IndProc ==
    /\ call.op = "pre" /\ call.stage = "ind_proc"
    /\ \E r \in {ind_proc(call.text, skips, indchar, strict)} :
           /\ indchar' = r.indchar
           /\ skips' = r.skips
           /\ call' = IF r.ok
                      THEN [call EXCEPT !.stage = "done", !.text = r.out, !.warned = r.warned]
                      ELSE [call EXCEPT !.stage = "raised", !.err = r.err, !.warned = r.warned]
    /\ UNCHANGED <<config, refs, docstring, ichain_count>>

\* processor.reformat (compiler.py 1257-1262) on the marked text: the
\* strings, comments and passthroughs are put back without S4-S7
Reformat ==
    /\ call.op = "pre" /\ call.stage = "ind_proc"
    /\ call.reformatted = NoReformat
    /\ call' = [call EXCEPT !.stage = "reformatted", !.reformatted = repl_proc(refs, call.text)]
    /\ UNCHANGED <<config, perparse>>

(***************************************************************************)
(* processor.parse (compiler.py 1368-1382) under an endpoint:              *)
(*   out = self.post(parser.parseString(self.pre(inputstring)))            *)
(* with the except clauses and finally: self.clean().  The grammar is not  *)
(* modelled: parseString either returns the one token of the text, or      *)
(* raises ParseBaseException or RuntimeError, and the handlers that ran    *)
(* may have used ichain_count and set the docstring.                       *)
(***************************************************************************)
MaxIchain == 1

ParseUnits == {
    [text |-> <<"a">>, indent |-> 0, height |-> 1],
    [text |-> <<SP, SP, "a">>, indent |-> 2, height |-> 1],
    [text |-> <<SQ, SQ, SQ, NL, SQ, SQ, SQ>>, indent |-> 0, height |-> 2] }

MaxParseUnits == 2

first_line(text) == IF Len(splitlines(text)) = 0 THEN <<>> ELSE splitlines(text)[1]

rest_lines(text) == join(<<NL>>, Tail(splitlines(text)))

\* a line that is one string marker
is_str_marker(line) ==
    /\ Len(line) >= 3
    /\ line[1] = strwrapper
    /\ line[Len(line)] = unwrapper
    /\ \A i \in 2..(Len(line) - 1) : line[i] \in nums

\* the endpoint is entered: parse_file and parse_module compute usehash first
ParseStart ==
    /\ call.stage \in {"idle", "end"}
    /\ \E mode \in parse_modes : \E addhash \in BOOLEAN :
       \E n \in 0..MaxParseUnits : \E us \in [1..n -> ParseUnits] :
           /\ (addhash => mode \in {"parse_file", "parse_module"})
           /\ LET inputstring == join(<<NL>>, unit_texts(us))
              IN  call' = parse_call(mode, inputstring, us, addhash,
                                     endpoint_usehash(mode, addhash, version, using_autopep8, inputstring),
                                     call.outcome)
    /\ UNCHANGED <<config, perparse>>

\* parser.parseString(...) and the handlers of the grammar
ParseString ==
    /\ call.mode \in parse_modes /\ call.stage = "done"
    /\ \E ichain \in 0..MaxIchain :
       /\ ichain_count' = ichain
       /\ \/ /\ call' = [call EXCEPT !.stage = "reind_proc"]
             /\ UNCHANGED docstring
          \/ \* set_docstring: the first statement is a string
             /\ is_str_marker(first_line(call.text))
             /\ docstring' = repl_proc(refs, first_line(call.text)).out \o <<NL, NL>>
             /\ call' = [call EXCEPT !.stage = "reind_proc", !.text = rest_lines(call.text)]
          \/ \* except ParseBaseException as err
             /\ \E errlineno \in 1..Max(1, Len(splitlines(call.text))) :
                    call' = [call EXCEPT !.stage = "raised",
                                         !.err = make_err_ln("CoconutParseError", "parsing failed",
                                                             adjust(skips, errlineno))]
             /\ UNCHANGED docstring
          \/ \* except RuntimeError
             /\ call' = [call EXCEPT !.stage = "raised",
                                     !.err = make_err_ln("CoconutException",
                                                         "maximum recursion depth exceeded", 0)]
             /\ UNCHANGED docstring
    /\ UNCHANGED <<config, indchar, refs, skips>>

ReindProc ==
    /\ call.mode \in parse_modes /\ call.stage = "reind_proc"
    /\ call' = [call EXCEPT !.stage = "repl_proc", !.text = reind_proc(call.text)]
    /\ UNCHANGED <<config, perparse>>

ReplProc ==
    /\ call.mode \in parse_modes /\ call.stage = "repl_proc"
    /\ \E r \in {repl_proc(refs, call.text)} :
           call' = IF r.ok
                   THEN [call EXCEPT !.stage = "header_proc", !.text = r.out]
                   ELSE [call EXCEPT !.stage = "raised",
                                     !.err = make_err_ln("CoconutException", "invalid marker", 0)]
    /\ UNCHANGED <<config, perparse>>

HeaderProc ==
    /\ call.mode \in parse_modes /\ call.stage = "header_proc"
    /\ ~getheader_raises(call.post.initial, call.post.usehash)
    /\ ~getheader_raises(call.post.header, None)
    /\ call' = [call EXCEPT !.stage = "polish",
                            !.text = header_proc(call.text, docstring, version, call.post.header,
                                                 call.post.initial, call.post.usehash)]
    /\ UNCHANGED <<config, perparse>>

Polish ==
    /\ call.mode \in parse_modes /\ call.stage = "polish"
    /\ call' = [call EXCEPT !.stage = "posted", !.text = polish(call.text)]
    /\ UNCHANGED <<config, perparse>>

\* a variant of the finally clause that cleans only when parse returns
after_parse_on_return(value, clean_value, raised) == IF raised THEN value ELSE clean_value

\* finally: self.clean() sets the attribute to its clean value
after_parse(value, clean_value, raised) == clean_value

\* the finally clause, then parse returns out or the exception propagates
Finally ==
    /\ call.mode \in parse_modes /\ call.stage \in {"posted", "raised"}
    /\ indchar' = after_parse(indchar, clean_indchar, call.stage = "raised")
    /\ refs' = after_parse(refs, clean_refs, call.stage = "raised")
    /\ docstring' = after_parse(docstring, clean_docstring, call.stage = "raised")
    /\ ichain_count' = after_parse(ichain_count, clean_ichain_count, call.stage = "raised")
    /\ skips' = after_parse(skips, clean_skips, call.stage = "raised")
    /\ call' = [call EXCEPT !.stage = "end",
                            !.outcome = IF call.stage = "posted" THEN "returned" ELSE call.err.type]
    /\ UNCHANGED config

InitParse ==
    /\ InitProcessor
    /\ version \in versions
    /\ strict = FALSE
    /\ call = [pre_call(<<>>, <<>>) EXCEPT !.stage = "idle"]

NextParse ==
    \/ ParseStart
    \/ Prepare \/ StrProc \/ PassthroughProc \/ IndProc
    \/ ParseString
    \/ ReindProc \/ ReplProc \/ HeaderProc \/ Polish
    \/ Finally

SpecParse == InitParse /\ [][NextParse]_vars

NextPre == Prepare \/ StrProc \/ PassthroughProc \/ IndProc

SpecPre == InitPre /\ [][NextPre]_vars

NextMark == Prepare \/ StrProc \/ PassthroughProc \/ Reformat

SpecMark == InitMark /\ [][NextMark]_vars

(***************************************************************************)
(* Claims about the pre-processing pipeline.                               *)
(***************************************************************************)
illegal_dedent == "illegal dedent to unused indentation level"

\* C1: after ind_proc returns, the text holds as many closeindents as
\* openindents, and no prefix of it holds more closeindents than openindents
C1_IndentsBalanced ==
    call.stage = "done" =>
        /\ Count(call.text, openindent) = Count(call.text, closeindent)
        /\ \A k \in 0..Len(call.text) :
               CountUpTo(call.text, closeindent, k) <= CountUpTo(call.text, openindent, k)

\* ind_proc returned a text with a dedent followed by more code
C1_Witness ==
    /\ call.stage = "done"
    /\ \E i \in 1..Len(call.text) : \E j \in (i + 1)..Len(call.text) :
           call.text[i] = closeindent /\ call.text[j] = "a"

\* T with "\r\n" and "\r" replaced by "\n"
RECURSIVE normalize_endings(_)
normalize_endings(s) ==
    IF Len(s) = 0 THEN <<>>
    ELSE IF s[1] = CR /\ Len(s) > 1 /\ s[2] = NL
         THEN <<NL>> \o normalize_endings(SubSeq(s, 3, Len(s)))
    ELSE IF s[1] = CR THEN <<NL>> \o normalize_endings(Tail(s))
    ELSE <<s[1]>> \o normalize_endings(Tail(s))

ends_with_line_ending(s) == Len(s) > 0 /\ s[Len(s)] \in {NL, CR}

\* no backslash is left outside the strings and comments, and every comment
\* starts at the beginning of its line
plain_marked(marked) ==
    /\ \A i \in 1..Len(marked) : marked[i] # BS
    /\ \A i \in 1..Len(marked) : marked[i] = HASH => (i = 1 \/ marked[i - 1] = NL)

\* C2 as stated: when marking succeeds, reformat of the marked text is T
\* with its line endings normalised
C2_RoundTripIsNormalizedText ==
    call.stage = "reformatted" =>
        /\ call.reformatted.ok
        /\ call.reformatted.out = normalize_endings(call.original)

\* C2 amended: when marking succeeds on a text with no backslash outside
\* strings and comments and with every comment at the start of its line,
\* reformat of the marked text is T with its line endings normalised and a
\* final "\n" added when T does not end with a line ending
C2_RoundTripOfPlainText ==
    (call.stage = "reformatted" /\ plain_marked(call.marked)) =>
        /\ call.reformatted.ok
        /\ call.reformatted.out =
               normalize_endings(call.original)
                   \o (IF ends_with_line_ending(call.original) THEN <<>> ELSE <<NL>>)

\* a multi-line string was marked and put back
C2_Witness ==
    /\ call.stage = "reformatted"
    /\ plain_marked(call.marked)
    /\ \E i \in 1..Len(refs) :
           refs[i].isstr /\ refs[i].multiline /\ Count(refs[i].text, NL) > 0

\* the physical lines of unit i of the source text
unit_first_line(us, i) ==
    1 + Cardinality({j \in 1..(i - 1) : us[j].height = 2}) + (i - 1)

unit_last_line(us, i) == unit_first_line(us, i) + us[i].height - 1

\* the first logical line whose indentation is smaller than the current one
\* and is none of the enclosing levels; 0 when there is none
RECURSIVE offending_unit(_, _, _, _)
offending_unit(us, i, levels, current) ==
    IF i > Len(us) THEN 0
    ELSE LET w == us[i].indent
         IN  IF current = no_current
             THEN IF w # 0 THEN 0 ELSE offending_unit(us, i + 1, levels, 0)
             ELSE IF w > current
             THEN offending_unit(us, i + 1, Append(levels, current), w)
             ELSE IF w = current
             THEN offending_unit(us, i + 1, levels, current)
             ELSE IF in_levels(levels, w)
             THEN offending_unit(us, i + 1, SubSeq(levels, 1, level_point(levels, w) - 1), w)
             ELSE i

\* C7: the line number of an illegal dedent error is the number, in the
\* source text, of the line that dedents
C7_DedentErrorLineIsOriginal ==
    (call.stage = "raised" /\ call.err.msg = illegal_dedent) =>
        LET k == offending_unit(call.units, 1, <<>>, no_current)
        IN  /\ k > 0
            /\ call.err.ln = unit_first_line(call.units, k)

\* what holds instead: the error names the line that dedents unless that
\* line starts with a string that runs over two lines, and then the line on
\* which the string ends
DedentErrorLineOfUnit ==
    (call.stage = "raised" /\ call.err.msg = illegal_dedent) =>
        LET k == offending_unit(call.units, 1, <<>>, no_current)
        IN  /\ k > 0
            /\ call.err.ln = IF SQ \in {call.units[k].text[i] : i \in 1..Len(call.units[k].text)}
                             THEN unit_last_line(call.units, k)
                             ELSE unit_first_line(call.units, k)

\* an illegal dedent after a logical line of two physical lines is reported
\* at its own line
DedentAfterCollapsedLines ==
    /\ call.stage = "raised"
    /\ call.err.msg = illegal_dedent
    /\ LET k == offending_unit(call.units, 1, <<>>, no_current)
       IN  /\ k > 0
           /\ call.units[k].height = 1
           /\ \E j \in 1..(k - 1) : call.units[j].height = 2
           /\ call.err.ln = unit_first_line(call.units, k)

(***************************************************************************)
(* Claims about the endpoints.                                             *)
(***************************************************************************)
\* C8: at the start of every parse_* call refs is empty, skips is empty,
\* indchar is None, the docstring is empty and ichain_count is 0, whatever
\* the earlier calls on the processor and their outcomes
C8_CleanAtStartOfParse ==
    (call.mode \in parse_modes /\ call.stage = "prepare") => IsClean

\* a parse_* call starts on a processor whose last call raised a parse error
C8_Witness ==
    /\ call.mode \in parse_modes
    /\ call.stage = "prepare"
    /\ call.prev = "CoconutParseError"

\* the per-parse state is in use when a call raises
DirtyWhenRaised ==
    /\ call.mode \in parse_modes
    /\ call.stage = "raised"
    /\ call.err.type = "CoconutParseError"
    /\ refs # clean_refs /\ skips # clean_skips /\ ichain_count # clean_ichain_count

\* a compilation: the compiler, the processor and the arguments of the
\* endpoint that computes the hash
this_compilation ==
    [version_str |-> VERSION_STR, version |-> version, strict |-> strict,
     using_autopep8 |-> using_autopep8, package |-> call.mode = "parse_module",
     text |-> call.original]

\* the compilations that differ from c in exactly one of the fields
differ_in_one(c, fields) ==
    {d \in [version_str : {VERSION_STR, "VERSION_STR+1"}, version : versions,
            strict : BOOLEAN, using_autopep8 : {c.using_autopep8}, package : {c.package},
            text : {c.text, c.text \o <<"a">>}] :
        /\ Cardinality({f \in {"version_str", "version", "strict", "text"} : d[f] # c[f]}) = 1
        /\ \E f \in fields : d[f] # c[f]}

\* C9: a compilation that differs from this one in the source text, the
\* target, strict or the compiler version feeds a different input to the
\* checksum; the same text and configuration feed the same input
C9_HashInputCoversConfiguration ==
    (call.mode \in {"parse_file", "parse_module"} /\ call.addhash) =>
        /\ call.post.usehash = checksum_hex(compilation_hash_input(this_compilation))
        /\ \A d \in differ_in_one(this_compilation, {"version_str", "version", "strict", "text"}) :
               compilation_hash_input(d) # compilation_hash_input(this_compilation)

\* what holds: the input covers the text, the target and the compiler version
HashInputCoversTextTargetVersion ==
    (call.mode \in {"parse_file", "parse_module"} /\ call.addhash) =>
        /\ call.post.usehash = checksum_hex(compilation_hash_input(this_compilation))
        /\ \A d \in differ_in_one(this_compilation, {"version_str", "version", "text"}) :
               compilation_hash_input(d) # compilation_hash_input(this_compilation)

has_token(text, tok) == \E i \in 1..Len(text) : text[i] = tok

has_initial_header(text) == \E ver \in versions : has_token(text, shebang(ver))

has_coconut_header(text) == has_token(text, coconut_header_line)

has_hash(text) == has_token(text, hash_prefix)

returned == call.mode \in parse_modes /\ call.stage = "end" /\ call.outcome = "returned"

\* C10 as stated: parse_single, parse_exec, parse_block and parse_eval
\* return the body with no header; parse_file and parse_module prepend a
\* header that embeds the hash
C10_HeaderOnlyForFileAndModule ==
    returned =>
        /\ call.mode \in {"parse_single", "parse_exec", "parse_block", "parse_eval"} =>
               ~has_initial_header(call.text) /\ ~has_coconut_header(call.text) /\ ~has_hash(call.text)
        /\ call.mode \in {"parse_file", "parse_module"} =>
               has_initial_header(call.text) /\ has_coconut_header(call.text) /\ has_hash(call.text)

\* C10 amended: parse_single, parse_block, parse_eval (and parse_debug)
\* return the body with no header; parse_exec prepends the file header
\* without the initial header and without a hash; parse_file and
\* parse_module prepend the initial header and the file or module header,
\* and the initial header holds the hash on its third line exactly when
\* addhash is true
C10_HeaderPerMode ==
    returned =>
        /\ call.mode \in {"parse_single", "parse_block", "parse_eval", "parse_debug"} =>
               ~has_initial_header(call.text) /\ ~has_coconut_header(call.text) /\ ~has_hash(call.text)
        /\ call.mode = "parse_exec" =>
               ~has_initial_header(call.text) /\ has_coconut_header(call.text) /\ ~has_hash(call.text)
        /\ call.mode \in {"parse_file", "parse_module"} =>
               /\ call.text[1] = shebang(version)
               /\ has_coconut_header(call.text)
               /\ has_hash(call.text) <=> call.addhash
               /\ call.addhash =>
                      /\ SubSeq(call.text, 5, 7) = <<hash_prefix, call.post.usehash, NL>>
                      /\ Count(SubSeq(call.text, 1, 4), NL) = 2
                      /\ call.post.usehash =
                             genhash(version, using_autopep8, call.mode = "parse_module", call.original)

\* parse_exec returned
C10_Witness ==
    /\ returned
    /\ call.mode = "parse_exec"
    /\ Len(call.units) > 0

(***************************************************************************)
(* The computation graph (compiler/util.py 110-247).                       *)
(*                                                                         *)
(* A token is a record [k, s, id, list, dict]:                             *)
(*   k = "str"   the string s                                              *)
(*   k = "node"  the ComputationNode id, whose tokens are the ParseResults *)
(*               with the list part list and the named part dict           *)
(*   k = "pr"    a ParseResults with the list part list and the named part *)
(*               dict, a sequence of [name, value]                         *)
(*   k = "val"   the value the action of node id returned                  *)
(* The log is the sequence of the nodes whose action was invoked.          *)
(***************************************************************************)
tok_str(str) == [k |-> "str", s |-> str, id |-> 0, list |-> <<>>, dict |-> <<>>]

tok_node(id, tokens) == [k |-> "node", s |-> "", id |-> id, list |-> tokens.list, dict |-> tokens.dict]

tok_pr(list, dict) == [k |-> "pr", s |-> "", id |-> 0, list |-> list, dict |-> dict]

tok_val(id) == [k |-> "val", s |-> "", id |-> id, list |-> <<>>, dict |-> <<>>]

\* multi_index_lookup (util.py 837-846): the indices of item in iterable,
\* descending into the ParseResults; <<>> is None
RECURSIVE multi_index_lookup_from(_, _, _)
multi_index_lookup_from(iterable, item, i) ==
    IF i > Len(iterable) THEN <<>>
    ELSE IF iterable[i] = item THEN <<i>>
    ELSE IF iterable[i].k = "pr"
    THEN Only({ IF inner # <<>> THEN <<i>> \o inner
                ELSE multi_index_lookup_from(iterable, item, i + 1)
                : inner \in {multi_index_lookup_from(iterable[i].list, item, 1)} })
    ELSE multi_index_lookup_from(iterable, item, i + 1)

multi_index_lookup(iterable, item) == multi_index_lookup_from(iterable, item, 1)

\* new_tokens = eval_new_toklist; for ind in indices: new_tokens = new_tokens[ind]
RECURSIVE index_into(_, _)
index_into(toklist, indices) ==
    IF Len(indices) = 1 THEN toklist[indices[1]]
    ELSE index_into(toklist[indices[1]].list, Tail(indices))

\* a variant that never finds the tokens among the evaluated ones
lookup_evaluated_never(evaluated_toklists, tokens) == <<>>

\* the loop over evaluated_toklists (util.py 147-154), which holds at most
\* one pair [old, new]
lookup_evaluated(evaluated_toklists, tokens) ==
    IF evaluated_toklists # <<>>
    THEN multi_index_lookup(evaluated_toklists[1].old, tokens)
    ELSE <<>>

\* evaluate_tokens (util.py 110-177) and ComputationNode.evaluate (217-240);
\* the result is [v, log]: the evaluated tokens and the log afterwards
RECURSIVE evaluate_tokens(_, _, _)
RECURSIVE evaluate_toklist(_, _, _, _, _)
RECURSIVE evaluate_tokdict(_, _, _, _, _)
RECURSIVE node_evaluate(_, _)

evaluate_toklist(toklist, i, evaluated_toklists, new, log) ==
    IF i > Len(toklist) THEN [v |-> new, log |-> log]
    ELSE Only({ evaluate_toklist(toklist, i + 1, evaluated_toklists, Append(new, r.v), r.log)
                : r \in {evaluate_tokens(toklist[i], evaluated_toklists, log)} })

evaluate_tokdict(tokdict, i, evaluated_toklists, new, log) ==
    IF i > Len(tokdict) THEN [v |-> new, log |-> log]
    ELSE Only({ evaluate_tokdict(tokdict, i + 1, evaluated_toklists,
                                 Append(new, [name |-> tokdict[i].name, value |-> r.v]), r.log)
                : r \in {evaluate_tokens(tokdict[i].value, evaluated_toklists, log)} })

node_evaluate(node, log) ==
    Only({ [v |-> tok_val(node.id), log |-> Append(r.log, node.id)]
           : r \in {evaluate_tokens(tok_pr(node.list, node.dict), <<>>, log)} })

evaluate_tokens(tokens, evaluated_toklists, log) ==
    IF tokens.k = "pr"
    THEN Only({ Only({ [v |-> tok_pr(l.v, d.v), log |-> d.log]
                       : d \in {evaluate_tokdict(tokens.dict, 1,
                                                 IF evaluated_toklists # <<>>
                                                    /\ tokens.list = evaluated_toklists[1].old
                                                 THEN evaluated_toklists
                                                 ELSE <<[old |-> tokens.list, new |-> l.v]>>,
                                                 <<>>, l.log)} })
                : l \in {IF evaluated_toklists # <<>> /\ tokens.list = evaluated_toklists[1].old
                         THEN [v |-> evaluated_toklists[1].new, log |-> log]
                         ELSE evaluate_toklist(tokens.list, 1, evaluated_toklists, <<>>, log)} })
    ELSE Only({ IF indices # <<>>
                THEN [v |-> index_into(evaluated_toklists[1].new, indices), log |-> log]
                ELSE IF tokens.k = "node" THEN node_evaluate(tokens, log)
                ELSE [v |-> tokens, log |-> log]
                : indices \in {lookup_evaluated(evaluated_toklists, tokens)} })

(***************************************************************************)
(* The parse that builds the graph: the results of the grammar elements    *)
(* are kept on a stack.  A token is matched, a result is given a results   *)
(* name, two results are joined by And, a result is grouped, a parse       *)
(* action made by attach replaces a result by a ComputationNode            *)
(* (ComputationNode.__new__, util.py 184-208); final evaluates the one     *)
(* result left.                                                            *)
(***************************************************************************)
MaxSteps == 6

MaxStack == 2

graph_call(stack, nextid, steps) ==
    [op |-> "graph", stack |-> stack, nextid |-> nextid, steps |-> steps,
     done |-> FALSE, log |-> <<>>, result |-> tok_pr(<<>>, <<>>)]

building == call.op = "graph" /\ ~call.done /\ call.steps < MaxSteps

top == call.stack[Len(call.stack)]

below == SubSeq(call.stack, 1, Len(call.stack) - 1)

InitGraph ==
    /\ InitProcessor
    /\ version = None
    /\ strict = FALSE
    /\ call = graph_call(<<>>, 1, 0)

ParseToken ==
    /\ building /\ Len(call.stack) < MaxStack
    /\ call' = [call EXCEPT !.stack = Append(call.stack, tok_pr(<<tok_str("a")>>, <<>>)),
                            !.steps = call.steps + 1]
    /\ UNCHANGED <<config, perparse>>

\* ParseResults(toklist, name, asList): the named value is a ParseResults of
\* the whole list (asList) or the first token
SetResultsName ==
    /\ building /\ Len(call.stack) > 0 /\ Len(top.list) > 0
    /\ \E asList \in BOOLEAN :
           call' = [call EXCEPT !.stack = Append(below,
                                    tok_pr(top.list,
                                           Append(top.dict,
                                                  [name |-> "name",
                                                   value |-> IF asList THEN tok_pr(top.list, <<>>)
                                                             ELSE top.list[1]]))),
                                !.steps = call.steps + 1]
    /\ UNCHANGED <<config, perparse>>

\* And: the results of two elements are added
ParseAnd ==
    /\ building /\ Len(call.stack) >= 2
    /\ LET first == call.stack[Len(call.stack) - 1]
       IN  call' = [call EXCEPT !.stack = Append(SubSeq(call.stack, 1, Len(call.stack) - 2),
                                                 tok_pr(first.list \o top.list, first.dict \o top.dict)),
                                !.steps = call.steps + 1]
    /\ UNCHANGED <<config, perparse>>

ParseGroup ==
    /\ building /\ Len(call.stack) > 0
    /\ call' = [call EXCEPT !.stack = Append(below, tok_pr(<<top>>, <<>>)),
                            !.steps = call.steps + 1]
    /\ UNCHANGED <<config, perparse>>

\* the parse action partial(ComputationNode, action, ...)
Attach ==
    /\ building /\ Len(call.stack) > 0
    /\ \E ignore_one_token \in BOOLEAN :
           IF ignore_one_token /\ Len(top.list) = 1
           THEN call' = [call EXCEPT !.stack = Append(below, tok_pr(<<top.list[1]>>, <<>>)),
                                     !.steps = call.steps + 1]
           ELSE call' = [call EXCEPT !.stack = Append(below,
                                         tok_pr(<<tok_node(call.nextid, top)>>, <<>>)),
                                     !.nextid = call.nextid + 1,
                                     !.steps = call.steps + 1]
    /\ UNCHANGED <<config, perparse>>

\* final_evaluate_tokens (util.py 313-321) on the result of the parse
FinalEvaluate ==
    /\ call.op = "graph" /\ ~call.done /\ Len(call.stack) = 1
    /\ \E r \in {evaluate_tokens(top, <<>>, <<>>)} :
           call' = [call EXCEPT !.done = TRUE, !.log = r.log, !.result = r.v]
    /\ UNCHANGED <<config, perparse>>

NextGraph ==
    ParseToken \/ SetResultsName \/ ParseAnd \/ ParseGroup \/ Attach \/ FinalEvaluate

SpecGraph == InitGraph /\ [][NextGraph]_vars

\* the ComputationNodes of the graph below a token
RECURSIVE node_tokens(_)
node_tokens(tok) ==
    (IF tok.k = "node" THEN {tok} ELSE {})
        \cup UNION {node_tokens(tok.list[i]) : i \in 1..Len(tok.list)}
        \cup UNION {node_tokens(tok.dict[i].value) : i \in 1..Len(tok.dict)}

invoked(id) == {i \in 1..Len(call.log) : call.log[i] = id}

\* C3: when the root of the graph has been evaluated, the action of every
\* ComputationNode of the graph was invoked exactly once, and after the
\* actions of the nodes among its tokens, also for the nodes that are in
\* the list part and in the named part of a ParseResults
C3_EachActionOnceInPostOrder ==
    (call.op = "graph" /\ call.done) =>
        \A n \in node_tokens(top) :
            /\ Cardinality(invoked(n.id)) = 1
            /\ \A m \in node_tokens(tok_pr(n.list, n.dict)) :
                   \A i \in invoked(m.id) : \A j \in invoked(n.id) : i < j

\* a node whose tokens hold another node both in the list part and in the
\* named part was evaluated
C3_Witness ==
    /\ call.op = "graph" /\ call.done
    /\ \E n \in node_tokens(top) :
           /\ Len(n.list) > 1
           /\ \E i \in 1..Len(n.list) : \E j \in 1..Len(n.dict) :
                  n.list[i].k = "node" /\ n.dict[j].value = n.list[i]

(***************************************************************************)
(* Pattern matching (compiler.py 759-1080).                                *)
(*                                                                         *)
(* A pattern is a record [t, c, ps]: t = "const" with the constant c,      *)
(* t = "var" for the name x, and t = "series", "iter", "and", "or" with    *)
(* the two sub-patterns ps.  An item is the expression the pattern is      *)
(* matched against: [base, path] is match_to_var (base 0) or the iterator  *)
(* variable match_iter_var_k (base k + 1), indexed by path; the model      *)
(* counts the indices from 1.  A check is a record [t, a, b, n], a def a   *)
(* record [t, k, a].                                                       *)
(***************************************************************************)
item_of(base, path) == [base |-> base, path |-> path]

match_to_var == item_of(0, <<>>)

NoItem == item_of(-1, <<>>)

sub_item(item, x) == item_of(item.base, Append(item.path, x))

check_isinstance(item) == [t |-> "isinstance", a |-> item, b |-> NoItem, n |-> 0]

check_len(item, n) == [t |-> "len", a |-> item, b |-> NoItem, n |-> n]

check_eq(item, c) == [t |-> "eq", a |-> item, b |-> NoItem, n |-> c]

check_name(name_item, item) == [t |-> "name", a |-> name_item, b |-> item, n |-> 0]

check_not_match_check_var == [t |-> "not", a |-> NoItem, b |-> NoItem, n |-> 0]

check_cond(cond) == [t |-> "cond", a |-> NoItem, b |-> NoItem, n |-> IF cond = "true" THEN 1 ELSE 0]

def_setvar(item) == [t |-> "setvar", k |-> 0, a |-> item]

def_itervar(k, item) == [t |-> "itervar", k |-> k, a |-> item]

no_checkdefs == [checks |-> <<>>, defs |-> <<>>]

\* a matcher: position, iter_index, checkdefs, names (the item x is bound
\* to, or NoItem), others; cur is the level self.checks and self.defs are
\* lists of; err is set when CoconutException was raised
\* set_position (823-832): level position is checkdefs[position + 1]
set_position(m, position) ==
    IF position > 0
    THEN [m EXCEPT !.checkdefs = IF Len(@) > position THEN @
                                 ELSE @ \o [i \in 1..(position + 1 - Len(@)) |-> no_checkdefs],
                   !.cur = position + 1,
                   !.position = position]
    ELSE [m EXCEPT !.err = TRUE]

\* matcher() (771-787 with checkdefs None)
new_matcher ==
    set_position([position |-> 0, cur |-> 0, iter_index |-> 0, checkdefs |-> <<no_checkdefs>>,
                  names |-> NoItem, others |-> <<>>, err |-> FALSE], 1)

\* matcher(self.checkdefs, self.names) and set_checks(0, ...) (789-793)
duplicate_of(m) ==
    [position |-> 0, cur |-> Len(m.checkdefs), iter_index |-> 0,
     checkdefs |-> [m.checkdefs EXCEPT ![1].checks = <<check_not_match_check_var>> \o @],
     names |-> m.names, others |-> <<>>, err |-> FALSE]

\* self.checks.append / self.defs.append
checks_append(m, check_item) == [m EXCEPT !.checkdefs[m.cur].checks = Append(@, check_item)]

defs_append(m, def_item) == [m EXCEPT !.checkdefs[m.cur].defs = Append(@, def_item)]

\* increment(True) (834-839)
RECURSIVE increment_forall(_)
increment_forall(m0) ==
    Only({ [m EXCEPT !.others = [i \in 1..Len(m0.others) |-> increment_forall(m0.others[i])],
                     !.err = m.err \/ \E i \in 1..Len(m0.others) : increment_forall(m0.others[i]).err]
           : m \in {set_position(m0, m0.position + 1)} })

\* add_check (811-815)
RECURSIVE add_check(_, _)
add_check(m, check_item) ==
    [checks_append(m, check_item) EXCEPT !.others = [i \in 1..Len(m.others) |-> add_check(m.others[i], check_item)]]

RECURSIVE match(_, _, _)

\* match_const (949-955)
match_const(m, original, item) == checks_append(m, check_eq(item, original.c))

\* match_var (957-965)
match_var(m, original, item) ==
    IF m.names # NoItem
    THEN checks_append(m, check_name(m.names, item))
    ELSE [defs_append(m, def_setvar(item)) EXCEPT !.names = item]

\* for x in range(0, len(match)): self.match(match[x], item + "[" + str(x) + "]")
match_each(m0, original, item) ==
    Only({ match(m, original.ps[2], sub_item(item, 2))
           : m \in {match(m0, original.ps[1], sub_item(item, 1))} })

\* match_sequence (861-884) without tail
match_sequence(m, original, item) ==
    match_each(checks_append(checks_append(m, check_isinstance(item)), check_len(item, 2)),
               original, item)

\* match_iterator (886-905) without tail
match_iterator(m, original, item) ==
    Only({ IF m2.err THEN m2 ELSE set_position(m2, m2.position - 1)
           : m2 \in {match_each(
                 checks_append(
                     set_position(
                         [defs_append(checks_append(m, check_isinstance(item)),
                                      def_itervar(m.iter_index + 1, item))
                          EXCEPT !.iter_index = @ + 1],
                         m.position + 1),
                     check_len(item_of(m.iter_index + 1, <<>>), 2)),
                 original, item_of(m.iter_index + 1, <<>>))} })

\* match_and (1011-1014)
match_and(m0, original, item) ==
    Only({ match(m, original.ps[2], item) : m \in {match(m0, original.ps[1], item)} })

\* match_or (1016-1020)
match_or(m, original, item) ==
    Only({ IF other.err THEN [m EXCEPT !.err = TRUE]
           ELSE match([m EXCEPT !.others = Append(@, other)], original.ps[1], item)
           : other \in {match(duplicate_of(m), original.ps[2], item)} })

\* match (1037-1042)
match(m0, original, item) ==
    Only({ IF m.err THEN m
           ELSE CASE original.t = "const" -> match_const(m, original, item)
                  [] original.t = "var" -> match_var(m, original, item)
                  [] original.t = "series" -> match_sequence(m, original, item)
                  [] original.t = "iter" -> match_iterator(m, original, item)
                  [] original.t = "and" -> match_and(m, original, item)
                  [] original.t = "or" -> match_or(m, original, item)
           : m \in {m0} })

\* matcher.out (1044-1057): the code of the matcher, then of its others;
\* the code of one matcher is the sequence of its levels
RECURSIVE out_others(_, _)
RECURSIVE out(_)
out_others(others, i) ==
    IF i > Len(others) THEN <<>> ELSE out(others[i]) \o out_others(others, i + 1)

out(m) == <<m.checkdefs>> \o out_others(m.others, 1)

\* match_handle (1059-1080): the matcher after the pattern and the guard
matching_of(matches, cond) ==
    Only({ IF cond # "none" /\ ~m.err
           THEN Only({ IF m2.err THEN m2 ELSE add_check(m2, check_cond(cond))
                       : m2 \in {increment_forall(m)} })
           ELSE m
           : m \in {match(new_matcher, matches, match_to_var)} })

(***************************************************************************)
(* The emitted code, run.  A value is [atom, elems]: the number atom, or   *)
(* with atom = 0 the tuple elems.  The environment holds match_to_var      *)
(* (to), match_check_var (flag), the name x, the iterator variables, and   *)
(* whether an exception was raised.                                        *)
(***************************************************************************)
MaxPatternSize == 5

MaxAtom == 2

Atom(n) == [atom |-> n, elems |-> <<>>]

Tuple(elems) == [atom |-> 0, elems |-> elems]

Unset == Atom(-1)

Raised == Atom(-2)

RECURSIVE index_value(_, _)
index_value(v, path) ==
    IF path = <<>> THEN v
    ELSE IF v.atom # 0 \/ path[1] > Len(v.elems) THEN Raised
    ELSE index_value(v.elems[path[1]], Tail(path))

\* the value of an item; Raised for NameError, TypeError, IndexError
eval_item(env, item) ==
    Only({ IF v = Unset THEN Raised ELSE index_value(v, item.path)
           : v \in {IF item.base = 0 THEN env.to ELSE env.iters[item.base]} })

\* "T", "F", or "R" when the check raises
eval_check(env, c) ==
    IF c.t = "not" THEN (IF env.flag THEN "F" ELSE "T")
    ELSE IF c.t = "cond" THEN (IF c.n = 1 THEN "T" ELSE "F")
    ELSE Only({ IF v = Raised THEN "R"
                ELSE CASE c.t = "isinstance" -> IF v.atom = 0 THEN "T" ELSE "F"
                       [] c.t = "len" -> IF v.atom # 0 THEN "R"
                                         ELSE IF Len(v.elems) = c.n THEN "T" ELSE "F"
                       [] c.t = "eq" -> IF v = Atom(c.n) THEN "T" ELSE "F"
                       [] c.t = "name" -> Only({ IF w = Raised THEN "R"
                                                 ELSE IF v = w THEN "T" ELSE "F"
                                                 : w \in {eval_item(env, c.b)} })
                : v \in {eval_item(env, c.a)} })

\* (c1) and (c2) and ...
RECURSIVE eval_checks(_, _, _)
eval_checks(env, checks, i) ==
    IF i > Len(checks) THEN "T"
    ELSE Only({ IF r = "T" THEN eval_checks(env, checks, i + 1) ELSE r
                : r \in {eval_check(env, checks[i])} })

exec_def(env, d) ==
    Only({ IF v = Raised \/ (d.t = "itervar" /\ v.atom # 0) THEN [env EXCEPT !.raised = TRUE]
           ELSE IF d.t = "setvar" THEN [env EXCEPT !.x = v]
           ELSE [env EXCEPT !.iters[d.k] = v]
           : v \in {eval_item(env, d.a)} })

RECURSIVE exec_defs(_, _, _)
exec_defs(env0, defs, i) ==
    Only({ IF i > Len(defs) \/ env.raised THEN env
           ELSE exec_defs(exec_def(env, defs[i]), defs, i + 1)
           : env \in {env0} })

\* the code out() writes for one matcher: the nested ifs and the defs of
\* the levels, match_check_var = True innermost
RECURSIVE exec_checkdefs(_, _, _)
exec_checkdefs(env0, checkdefs, i) ==
    Only({ IF env.raised THEN env
           ELSE IF i > Len(checkdefs) THEN [env EXCEPT !.flag = TRUE]
           ELSE Only({ IF r = "R" THEN [env EXCEPT !.raised = TRUE]
                       ELSE IF r = "F" THEN env
                       ELSE exec_checkdefs(exec_defs(env, checkdefs[i].defs, 1), checkdefs, i + 1)
                       : r \in {eval_checks(env, checkdefs[i].checks, 1)} })
           : env \in {env0} })

\* the patterns of n tokens
kinds == {"series", "iter", "and", "or"}

pattern(t, c, ps) == [t |-> t, c |-> c, ps |-> ps]

RECURSIVE PatternsOfSize(_)
PatternsOfSize(n) ==
    IF n = 1
    THEN {pattern("const", c, <<>>) : c \in 1..MaxAtom} \cup {pattern("var", 0, <<>>)}
    ELSE UNION { { pattern(t, 0, <<p, q>>) : t \in kinds, p \in PatternsOfSize(i),
                                             q \in PatternsOfSize(n - 1 - i) }
                 : i \in 1..(n - 2) }

Patterns == UNION {PatternsOfSize(n) : n \in 1..MaxPatternSize}

Atoms == {Atom(n) : n \in 1..MaxAtom}

Values == Atoms \cup {Tuple(<<a, b>>) : a \in Atoms, b \in Atoms}

Conds == {"none", "true", "false"}

\* what a pattern means: the bindings of x with which the value satisfies
\* the pattern, from the binding x has before
RECURSIVE bindings(_, _, _)
bindings(p, v, x) ==
    CASE p.t = "const" -> IF v = Atom(p.c) THEN {x} ELSE {}
      [] p.t = "var" -> IF x = Unset THEN {v} ELSE IF x = v THEN {x} ELSE {}
      [] p.t \in {"series", "iter"} ->
             IF v.atom = 0 /\ Len(v.elems) = 2
             THEN UNION {bindings(p.ps[2], v.elems[2], x1) : x1 \in bindings(p.ps[1], v.elems[1], x)}
             ELSE {}
      [] p.t = "and" -> UNION {bindings(p.ps[2], v, x1) : x1 \in bindings(p.ps[1], v, x)}
      [] p.t = "or" -> bindings(p.ps[1], v, x) \cup bindings(p.ps[2], v, x)

satisfies(p, v) == bindings(p, v, Unset) # {}

RECURSIVE has_kind(_, _)
has_kind(p, t) == p.t = t \/ \E i \in 1..Len(p.ps) : has_kind(p.ps[i], t)

match_call(matches, value, cond) ==
    [op |-> "match", stage |-> "tokens", matches |-> matches, value |-> value, cond |-> cond,
     code |-> <<>>, pc |-> 0,
     env |-> [to |-> Unset, flag |-> FALSE, x |-> Unset,
              iters |-> [k \in 1..MaxPatternSize |-> Unset], raised |-> FALSE]]

InitMatch ==
    /\ InitProcessor
    /\ version = None
    /\ strict = FALSE
    /\ \E matches \in Patterns, value \in Values, cond \in Conds :
           call = match_call(matches, value, cond)

\* match_handle: the tokens of a match statement become code, or
\* CoconutException is raised
MatchHandle ==
    /\ call.op = "match" /\ call.stage = "tokens"
    /\ \E m \in {matching_of(call.matches, call.cond)} :
           IF m.err
           THEN call' = [call EXCEPT !.stage = "CoconutException"]
           ELSE call' = [call EXCEPT !.stage = "code", !.code = out(m)]
    /\ UNCHANGED <<config, perparse>>

\* match_check_var = False; match_to_var = item
ExecStart ==
    /\ call.op = "match" /\ call.stage = "code"
    /\ call' = [call EXCEPT !.stage = "run", !.pc = 1, !.env.flag = FALSE, !.env.to = call.value]
    /\ UNCHANGED <<config, perparse>>

\* the code of the next matcher
ExecMatcher ==
    /\ call.op = "match" /\ call.stage = "run" /\ call.pc <= Len(call.code)
    /\ \E env \in {exec_checkdefs(call.env, call.code[call.pc], 1)} :
           call' = [call EXCEPT !.env = env,
                                !.pc = call.pc + 1,
                                !.stage = IF env.raised THEN "raised" ELSE "run"]
    /\ UNCHANGED <<config, perparse>>

\* if match_check_var: stmts
ExecEnd ==
    /\ call.op = "match" /\ call.stage = "run" /\ call.pc > Len(call.code)
    /\ call' = [call EXCEPT !.stage = "done"]
    /\ UNCHANGED <<config, perparse>>

NextMatch == MatchHandle \/ ExecStart \/ ExecMatcher \/ ExecEnd

SpecMatch == InitMatch /\ [][NextMatch]_vars

matched == call.op = "match" /\ call.stage = "done"

\* C4: for a pattern of const, var, sequence, and, or, without a guard, the
\* emitted code sets the match flag to True only if the value satisfies the
\* pattern
C4_FlagOnlyIfPatternSatisfied ==
    (matched /\ call.cond = "none" /\ ~has_kind(call.matches, "iter") /\ call.env.flag)
        => satisfies(call.matches, call.value)

\* the same for the patterns without or
FlagIffSatisfiedWithoutOr ==
    (matched /\ call.cond = "none" /\ ~has_kind(call.matches, "iter")
        /\ ~has_kind(call.matches, "or"))
        => (call.env.flag <=> satisfies(call.matches, call.value))

\* C5: when the emitted code finishes with the match flag False, the name
\* of the pattern has not been assigned
C5_NoBindingWhenFlagFalse ==
    (matched /\ ~call.env.flag) => call.env.x = Unset

\* the same for the patterns without iterator and without guard
NoBindingWithoutGuardAndIterator ==
    (matched /\ call.cond = "none" /\ ~has_kind(call.matches, "iter") /\ ~call.env.flag)
        => call.env.x = Unset

(***************************************************************************)
(* Brackets in the indent processor.  SpecBrackets runs the pre-processors *)
(* on texts of brackets, names and line breaks; they hold no string, no    *)
(* comment and no passthrough, so ind_proc reads the prepared text.        *)
(***************************************************************************)
MaxBrackets == 4

BracketFrags == { <<"(">>, <<")">>, <<"]">>, <<"a">>, <<NL>> }

InitBrackets ==
    /\ InitProcessor
    /\ version = None
    /\ strict = FALSE
    /\ \E n \in 0..MaxBrackets : \E fs \in [1..n -> BracketFrags] :
           call = pre_call(flatten(fs), <<>>)

SpecBrackets == InitBrackets /\ [][NextPre]_vars

opened_upto(s, k) == Cardinality({i \in 1..k : s[i] \in downs})

closed_upto(s, k) == Cardinality({i \in 1..k : s[i] \in ups})

\* no closing bracket without an unmatched opening bracket before it, and
\* none left open at the end
brackets_balanced(s) ==
    /\ \A k \in 1..Len(s) : closed_upto(s, k) <= opened_upto(s, k)
    /\ closed_upto(s, Len(s)) = opened_upto(s, Len(s))

unclosed_parenthetical == "unclosed parenthetical"

\* C11: ind_proc returns only for texts whose brackets are balanced: no
\* closing bracket comes before its opening bracket, and the depth is zero
\* at the end of the text
C11_ReturnsOnlyBalancedBrackets ==
    (call.op = "pre" /\ call.stage = "done") => brackets_balanced(call.original)

\* ind_proc returns only when the text has as many closing as opening
\* brackets, and raises "unclosed parenthetical" only when it has not
ReturnsOnlyWhenChangeIsZero ==
    /\ (call.op = "pre" /\ call.stage = "done") => change(call.original) = 0
    /\ (call.op = "pre" /\ call.stage = "raised" /\ call.err.msg = unclosed_parenthetical)
           => change(call.original) # 0

\* a text with every bracket closed after it was opened went through
BalancedBracketsReturned ==
    /\ call.op = "pre" /\ call.stage = "done"
    /\ brackets_balanced(call.original)
    /\ change(SubSeq(call.original, 1, 1)) = -1

(***************************************************************************)
(* Strings closed: what the claim about str_proc means by a text in which  *)
(* every string literal is closed.  The text is read from the left: "#"    *)
(* starts a comment up to the line break, a quote starts a string, three   *)
(* quotes a multi-line string, a backslash inside a string takes the next  *)
(* character with it.  With escaped_newline a backslash may also take a    *)
(* line break inside a single-quoted string, without it any line break     *)
(* ends the single-quoted string unclosed.                                 *)
(***************************************************************************)
triple_at(s, i, q) == i + 2 <= Len(s) /\ s[i] = q /\ s[i + 1] = q /\ s[i + 2] = q

RECURSIVE strings_closed_from(_, _, _, _, _)
strings_closed_from(s, i, mode, q, escaped_newline) ==
    IF i > Len(s) THEN mode \in {"code", "comment"}
    ELSE CASE mode = "code" ->
                  IF s[i] = HASH THEN strings_closed_from(s, i + 1, "comment", q, escaped_newline)
                  ELSE IF s[i] \in holds /\ triple_at(s, i, s[i])
                  THEN strings_closed_from(s, i + 3, "triple", s[i], escaped_newline)
                  ELSE IF s[i] \in holds
                  THEN strings_closed_from(s, i + 1, "single", s[i], escaped_newline)
                  ELSE strings_closed_from(s, i + 1, "code", q, escaped_newline)
           [] mode = "comment" ->
                  strings_closed_from(s, i + 1, IF s[i] = NL THEN "code" ELSE "comment", q,
                                      escaped_newline)
           [] mode = "single" ->
                  IF s[i] = BS
                  THEN IF i < Len(s) /\ s[i + 1] = NL /\ ~escaped_newline THEN FALSE
                       ELSE strings_closed_from(s, i + 2, "single", q, escaped_newline)
                  ELSE IF s[i] = NL THEN FALSE
                  ELSE IF s[i] = q THEN strings_closed_from(s, i + 1, "code", q, escaped_newline)
                  ELSE strings_closed_from(s, i + 1, "single", q, escaped_newline)
           [] mode = "triple" ->
                  IF s[i] = BS THEN strings_closed_from(s, i + 2, "triple", q, escaped_newline)
                  ELSE IF triple_at(s, i, q)
                  THEN strings_closed_from(s, i + 3, "code", q, escaped_newline)
                  ELSE strings_closed_from(s, i + 1, "triple", q, escaped_newline)

strings_closed(s, escaped_newline) == strings_closed_from(s, 1, "code", SQ, escaped_newline)

\* the text str_proc was given, and whether it returned or raised
str_proc_input == prepare(call.original, preargs_strip(call.mode))

str_proc_returned == call.op = "pre" /\ call.marked # <<>>

str_proc_raised == call.op = "pre" /\ call.stage = "raised" /\ call.marked = <<>>

\* the state right after str_proc returned: self.skips holds the lines it added
str_proc_just_returned == str_proc_returned /\ call.stage = "passthrough_proc"

\* C23 as stated: the line breaks of the input are those of the output of
\* str_proc plus the lines str_proc added to the skips
C23_NewlinesAreOutputPlusSkips ==
    str_proc_just_returned =>
        Count(str_proc_input, NL) = Count(call.marked, NL) + Cardinality(skips)

\* C23 amended: the output of str_proc and the lines it added to the skips
\* hold one line break more than the input, the one read at the end of it
C23_NewlinesPlusOneAreOutputPlusSkips ==
    str_proc_just_returned =>
        Count(str_proc_input, NL) + 1 = Count(call.marked, NL) + Cardinality(skips)

\* str_proc returned a text with a line break left and one taken into a string
C23_Witness ==
    /\ str_proc_just_returned
    /\ Cardinality(skips) > 0
    /\ Count(call.marked, NL) > 1

\* C12 as stated: str_proc returns only if every string it opened was
\* closed, a single-quoted string before the next line break; else it
\* raises CoconutSyntaxError and leaves self.skips as it was
C12_ReturnsOnlyIfClosedOnTheLine ==
    /\ str_proc_returned => strings_closed(str_proc_input, FALSE)
    /\ str_proc_raised => (call.err.type = "CoconutSyntaxError" /\ skips = clean_skips)

\* C12 amended: the same, a single-quoted string being closed before the
\* next line break that no backslash escapes
C12_ReturnsOnlyIfClosed ==
    /\ str_proc_returned => strings_closed(str_proc_input, TRUE)
    /\ str_proc_raised => (call.err.type = "CoconutSyntaxError" /\ skips = clean_skips)

\* str_proc returned a single-quoted string that holds a line break
C12_Witness ==
    /\ str_proc_returned
    /\ \E i \in 1..Len(refs) :
           refs[i].isstr /\ ~refs[i].multiline /\ Count(refs[i].text, NL) > 0

\* str_proc raised after a line break inside a multi-line string
RaisedInMultilineString ==
    /\ str_proc_raised
    /\ triple_at(str_proc_input, 1, SQ)
    /\ Count(str_proc_input, NL) > 0

(***************************************************************************)
(* case blocks (compiler.py 1082-1108).  An arm is [matches, cond, stmts]: *)
(* the pattern, the guard, and the body, which is "pass" or a match        *)
(* statement of its own on the same value, [nested, matches].  ran is the  *)
(* sequence of the bodies that were executed: the number of an arm, or 0   *)
(* for the else body.                                                      *)
(***************************************************************************)
MaxArms == 2

ArmPatterns == PatternsOfSize(1)

ArmStmts == {[nested |-> FALSE, matches |-> pattern("var", 0, <<>>)]}
                \cup {[nested |-> TRUE, matches |-> p] : p \in ArmPatterns}

CaseArms == {[matches |-> p, cond |-> c, stmts |-> b] :
                p \in ArmPatterns, c \in {"none", "false"}, b \in ArmStmts}

\* the code out() wrote, run: the matcher and then its others
RECURSIVE exec_out(_, _, _)
exec_out(env0, code, i) ==
    Only({ IF i > Len(code) \/ env.raised THEN env
           ELSE exec_out(exec_checkdefs(env, code[i], 1), code, i + 1)
           : env \in {env0} })

\* the code of match_handle up to the statements: match_check_var = False
\* (top), match_to_var = item, matching.out()
exec_match_handle(env, value, matches, cond, is_top) ==
    exec_out([env EXCEPT !.flag = IF is_top THEN FALSE ELSE @, !.to = value],
             out(matching_of(matches, cond)), 1)

\* the statements of an arm: a match statement in it is the code of its own
\* match_handle
exec_stmts(env, value, stmts) ==
    IF stmts.nested THEN exec_match_handle(env, value, stmts.matches, "none", TRUE) ELSE env

case_call(value, cases, default) ==
    [op |-> "case", stage |-> "tokens", value |-> value, cases |-> cases, default |-> default,
     pc |-> 0, ran |-> <<>>,
     env |-> [to |-> Unset, flag |-> FALSE, x |-> Unset,
              iters |-> [k \in 1..MaxPatternSize |-> Unset], raised |-> FALSE]]

InitCase ==
    /\ InitProcessor
    /\ version = None
    /\ strict = FALSE
    /\ \E n \in 1..MaxArms : \E cases \in [1..n -> CaseArms] :
       \E value \in Atoms, default \in BOOLEAN :
           call = case_call(value, cases, default)

\* case_handle: the tokens of the case block become code
CaseHandle ==
    /\ call.op = "case" /\ call.stage = "tokens"
    /\ call' = [call EXCEPT !.stage = "run", !.pc = 1]
    /\ UNCHANGED <<config, perparse>>

\* the code of one arm: match_handle of the first arm, and for the others
\* "if not match_check_var:" around match_handle with top = False
ExecArm ==
    /\ call.op = "case" /\ call.stage = "run" /\ call.pc <= Len(call.cases)
    /\ LET arm == call.cases[call.pc]
       IN  IF call.pc > 1 /\ call.env.flag
           THEN call' = [call EXCEPT !.pc = call.pc + 1]
           ELSE \E env \in {exec_match_handle(call.env, call.value, arm.matches, arm.cond,
                                              call.pc = 1)} :
                    IF env.flag
                    THEN call' = [call EXCEPT !.pc = call.pc + 1,
                                              !.ran = Append(call.ran, call.pc),
                                              !.env = exec_stmts(env, call.value, arm.stmts)]
                    ELSE call' = [call EXCEPT !.pc = call.pc + 1, !.env = env]
    /\ UNCHANGED <<config, perparse>>

\* "if not match_check_var" + default
ExecDefault ==
    /\ call.op = "case" /\ call.stage = "run" /\ call.pc > Len(call.cases)
    /\ call' = [call EXCEPT !.stage = "done",
                            !.ran = IF call.default /\ ~call.env.flag THEN Append(call.ran, 0)
                                    ELSE call.ran]
    /\ UNCHANGED <<config, perparse>>

NextCase == CaseHandle \/ ExecArm \/ ExecDefault

SpecCase == InitCase /\ [][NextCase]_vars

arms_ran == {i \in 1..Len(call.ran) : call.ran[i] # 0}

else_ran == \E i \in 1..Len(call.ran) : call.ran[i] = 0

\* C13: in a compiled case block at most one arm's body is executed, and
\* the else body is executed if and only if no arm matched, also when the
\* bodies hold match statements
C13_OneArmElseIffNone ==
    (call.op = "case" /\ call.stage = "done") =>
        /\ Cardinality(arms_ran) <= 1
        /\ call.default => (else_ran <=> arms_ran = {})

\* the same for case blocks whose bodies hold no match statement, and the
\* arm that ran is the first whose pattern and guard the value satisfies
OneArmWithoutNestedMatch ==
    (call.op = "case" /\ call.stage = "done"
        /\ \A i \in 1..Len(call.cases) : ~call.cases[i].stmts.nested) =>
        LET fits(i) == satisfies(call.cases[i].matches, call.value) /\ call.cases[i].cond = "none"
        IN  /\ Cardinality(arms_ran) <= 1
            /\ call.default => (else_ran <=> arms_ran = {})
            /\ \A i \in 1..Len(call.cases) :
                   (call.ran # <<>> /\ call.ran[1] = i) <=> (fits(i) /\ \A j \in 1..(i - 1) : ~fits(j))

(***************************************************************************)
(* pipe_handle (compiler.py 660-676).  The tokens are the operands and the *)
(* operators of a chain of pipes, e0 op1 e1 ... opn en, as strings.        *)
(***************************************************************************)
MaxPipes == 2

PipeOperands == {"x", "f", "g"}

PipeOps == {"|>", "|*>", "<|", "<*|"}

\* a variant that takes every pipe as a forward pipe
pipe_item_forward(op, func, rest) == "(" \o func \o ")(" \o rest \o ")"

\* the four branches: func and op were popped, rest is pipe_handle(tokens)
pipe_item(op, func, rest) ==
    CASE op = "|>" -> "(" \o func \o ")(" \o rest \o ")"
      [] op = "|*>" -> "(" \o func \o ")(*" \o rest \o ")"
      [] op = "<|" -> "(" \o rest \o ")(" \o func \o ")"
      [] op = "<*|" -> "(" \o rest \o ")(*" \o func \o ")"

RECURSIVE pipe_handle(_)
pipe_handle(tokens) ==
    IF Len(tokens) = 1 THEN tokens[1]
    ELSE Only({ pipe_item(tokens[Len(tokens) - 1], tokens[Len(tokens)], rest)
                : rest \in {pipe_handle(SubSeq(tokens, 1, Len(tokens) - 2))} })

\* tokens.pop() twice per call: what is left of the list
RECURSIVE pipe_tokens_left(_)
pipe_tokens_left(tokens) ==
    IF Len(tokens) = 1 THEN tokens ELSE pipe_tokens_left(SubSeq(tokens, 1, Len(tokens) - 2))

RECURSIVE PipeChains(_)
PipeChains(n) ==
    IF n = 0 THEN {<<e>> : e \in PipeOperands}
    ELSE {c \o <<op, e>> : c \in PipeChains(n - 1), op \in PipeOps, e \in PipeOperands}

InitPipe ==
    /\ InitProcessor
    /\ version = None
    /\ strict = FALSE
    /\ \E n \in 0..MaxPipes : \E tokens \in PipeChains(n) :
           call = [op |-> "pipe", stage |-> "tokens", original |-> tokens, tokens |-> tokens,
                   out |-> ""]

PipeHandle ==
    /\ call.op = "pipe" /\ call.stage = "tokens"
    /\ call' = [call EXCEPT !.stage = "done", !.out = pipe_handle(call.tokens),
                            !.tokens = pipe_tokens_left(call.tokens)]
    /\ UNCHANGED <<config, perparse>>

NextPipe == PipeHandle

SpecPipe == InitPipe /\ [][NextPipe]_vars

\* the call of f on a, with a star for the starred pipes
applied(f, a, star) == "(" \o f \o ")(" \o (IF star THEN "*" ELSE "") \o a \o ")"

\* the chain folded from the left: acc is the text of e0 op1 ... e(i-1)
RECURSIVE pipe_fold(_, _, _)
pipe_fold(tokens, i, acc) ==
    IF i > Len(tokens) THEN acc
    ELSE pipe_fold(tokens, i + 2,
                   IF tokens[i] \in {"|>", "|*>"}
                   THEN applied(tokens[i + 1], acc, tokens[i] = "|*>")
                   ELSE applied(acc, tokens[i + 1], tokens[i] = "<*|"))

\* C14: pipe_handle lowers a chain of pipes as a fold from the left, the
\* part folded so far being the argument of a forward pipe and the function
\* of a backward pipe; x |> f |> g becomes (g)((f)(x)) and a single operand
\* is returned as it is
C14_PipeIsLeftFold ==
    (call.op = "pipe" /\ call.stage = "done") =>
        /\ call.out = pipe_fold(call.original, 2, call.original[1])
        /\ call.original = <<"x", "|>", "f", "|>", "g">> => call.out = "(g)((f)(x))"
        /\ Len(call.original) = 1 => call.out = call.original[1]

\* a chain with a backward pipe after a forward pipe was lowered
C14_Witness ==
    /\ call.op = "pipe" /\ call.stage = "done"
    /\ call.original = <<"x", "|>", "f", "<*|", "g">>
    /\ call.out = "((f)(x))(*g)"

(***************************************************************************)
(* Imports (compiler.py 1130-1163, 1828-1890).  A module path and a line   *)
(* of code are sequences of tokens: the names, "." and "/" are tokens of   *)
(* their own, so that split(".") and split("./") work on them as on the    *)
(* characters of the string.                                               *)
(***************************************************************************)
DOT == "."

SLASH == "/"

import_as_var == "_coconut_import"

\* path.split(".")
RECURSIVE split_dot_from(_, _, _)
split_dot_from(s, i, part) ==
    IF i > Len(s) THEN <<part>>
    ELSE IF s[i] = DOT THEN <<part>> \o split_dot_from(s, i + 1, <<>>)
    ELSE split_dot_from(s, i + 1, Append(part, s[i]))

split_dot(s) == split_dot_from(s, 1, <<>>)

\* ".".join(parts)
join_dot(parts) == join(<<DOT>>, parts)

\* base.replace("/", "")
clean_slash(s) == SelectSeq(s, LAMBDA c : c # SLASH)

has_token_in(s, c) == \E i \in 1..Len(s) : s[i] = c

\* path.split("./") of a path with at most one "./"
split_from_marker(s) ==
    IF \E i \in 1..(Len(s) - 1) : s[i] = DOT /\ s[i + 1] = SLASH
    THEN LET i == CHOOSE i \in 1..(Len(s) - 1) : s[i] = DOT /\ s[i + 1] = SLASH
         IN  <<SubSeq(s, 1, i - 1), SubSeq(s, i + 2, Len(s))>>
    ELSE <<s>>

\* entries of new_to_old_stdlib (115-158): those with the version (3,) that
\* differ in shape, and the one with the version (3, 3)
new_to_old_stdlib == {
    [new |-> <<"queue">>, old |-> <<"Queue">>, version_check |-> <<3>>],
    [new |-> <<"tkinter">>, old |-> <<"Tkinter">>, version_check |-> <<3>>],
    [new |-> <<"urllib", DOT, "request">>, old |-> <<"urllib2">>, version_check |-> <<3>>],
    [new |-> <<"email", DOT, "mime", DOT, "text">>, old |-> <<"email", DOT, "MIMEText">>,
     version_check |-> <<3>>],
    [new |-> <<"io", DOT, "StringIO">>, old |-> <<"StringIO">>, version_check |-> <<3>>],
    [new |-> <<"collections", DOT, "abc">>, old |-> <<"collections">>,
     version_check |-> <<3, 3>>] }

in_new_to_old(name) == \E e \in new_to_old_stdlib : e.new = name

new_to_old(name) == CHOOSE e \in new_to_old_stdlib : e.new = name

\* version_tuple (1356-1361) and the comparison of tuples
version_tuple(ver) == IF ver = None THEN <<>> ELSE <<IntOfStr(<<ver>>)>>

RECURSIVE tuple_less(_, _)
tuple_less(a, b) ==
    IF b = <<>> THEN FALSE
    ELSE IF a = <<>> THEN TRUE
    ELSE a[1] < b[1] \/ (a[1] = b[1] /\ tuple_less(Tail(a), Tail(b)))

\* gen_imports (1130-1163): the statements that import path as impas
RECURSIVE fake_mod_stmts(_, _)
fake_mod_stmts(fake_mods, i) ==
    IF i >= Len(fake_mods) THEN <<>>
    ELSE LET mod_name == join_dot(SubSeq(fake_mods, 1, i))
             new_module == mod_name \o <<" = __coconut__.imp.new_module(\"">> \o mod_name \o <<"\")">>
         IN  << <<"try:">>,
                <<openindent>> \o mod_name,
                <<closeindent, "except:">>,
                <<openindent>> \o new_module,
                <<closeindent, "else:">>,
                <<openindent, "if not __coconut__.isinstance(">> \o mod_name
                    \o <<", __coconut__.types.ModuleType):">>,
                <<openindent>> \o new_module,
                <<closeindent, closeindent>> >>
             \o fake_mod_stmts(fake_mods, i + 1)

gen_imports(path, impas) ==
    LET parts == split_from_marker(path)
    IN  IF Len(parts) = 1
        THEN IF impas = parts[1] THEN << <<"import ">> \o parts[1] >>
             ELSE IF ~has_token_in(impas, DOT)
             THEN << <<"import ">> \o parts[1] \o <<" as ">> \o impas >>
             ELSE LET fake_mods == split_dot(impas)
                      stmts_out == << <<"import ">> \o parts[1] \o <<" as ", import_as_var>> >>
                                 \o fake_mod_stmts(fake_mods, 1)
                      assign == join_dot(fake_mods) \o <<" = ", import_as_var>>
                  IN  IF endswith(stmts_out[Len(stmts_out)], closeindent)
                      THEN [stmts_out EXCEPT ![Len(stmts_out)] = @ \o assign]
                      ELSE Append(stmts_out, assign)
        ELSE IF impas = parts[2]
        THEN << <<"from ">> \o parts[1] \o <<" import ">> \o parts[2] >>
        ELSE << <<"from ">> \o parts[1] \o <<" import ">> \o parts[2] \o <<" as ">> \o impas >>

\* a variant that forgets what follows the renamed module
old_imp_without_exts(entry, base, exts) == entry.old

\* old_imp, version_check = new_to_old_stdlib[clean_base], and the
\* extensions added to old_imp (1852-1858)
old_imp_of(entry, base, exts) ==
    IF exts # <<>>
    THEN entry.old \o (IF has_token_in(base, SLASH) THEN <<DOT, SLASH>> ELSE <<DOT>>)
                   \o join_dot(exts)
    ELSE entry.old

\* for i in reversed(range(1, len(path)+1)): <<>> when old_imp stays None
RECURSIVE find_old_imp(_, _)
find_old_imp(path, i) ==
    IF i < 1 THEN <<>>
    ELSE LET base == join_dot(SubSeq(path, 1, i))
             exts == SubSeq(path, i + 1, Len(path))
         IN  IF in_new_to_old(clean_slash(base))
             THEN << [old_imp |-> old_imp_of(new_to_old(clean_slash(base)), base, exts),
                      version_check |-> new_to_old(clean_slash(base)).version_check] >>
             ELSE find_old_imp(path, i - 1)

\* one entry of importmap: [paths, version_check, impas] (1840-1868)
importmap_entry(imp_from, imps, ver) ==
    LET impas == IF Len(imps) = 1 THEN imps[1] ELSE imps[2]
        imp == IF imp_from # <<>> THEN imp_from \o <<DOT, SLASH>> \o imps[1] ELSE imps[1]
        found == find_old_imp(split_dot(imp), Len(split_dot(imp)))
    IN  IF found = <<>>
        THEN [paths |-> <<imp>>, version_check |-> <<>>, impas |-> impas]
        ELSE IF ver = "2"
        THEN [paths |-> <<found[1].old_imp>>, version_check |-> <<>>, impas |-> impas]
        ELSE IF ver = None \/ tuple_less(version_tuple(ver), found[1].version_check)
        THEN [paths |-> <<found[1].old_imp, imp>>, version_check |-> found[1].version_check,
              impas |-> impas]
        ELSE [paths |-> <<imp>>, version_check |-> <<>>, impas |-> impas]

\* str(version_check) of a tuple of numbers
str_tuple(t) ==
    IF Len(t) = 1 THEN <<"(">> \o StrOfNat(t[1]) \o <<",)">>
    ELSE <<"(">> \o join(<<",", " ">>, [i \in 1..Len(t) |-> StrOfNat(t[i])]) \o <<")">>

open_first(more_stmts) == [more_stmts EXCEPT ![1] = <<openindent>> \o @]

\* the second loop of import_handle (1869-1889)
RECURSIVE import_stmts(_, _, _)
import_stmts(importmap, i, stmts) ==
    IF i > Len(importmap) THEN stmts
    ELSE LET e == importmap[i]
             merge == Len(stmts) > 0 /\ stmts[Len(stmts)] = <<closeindent>>
             guard == <<"if _coconut_sys.version_info < ">> \o str_tuple(e.version_check) \o <<":">>
         IN  import_stmts(importmap, i + 1,
                 IF Len(e.paths) = 1
                 THEN IF merge
                      THEN SubSeq(stmts, 1, Len(stmts) - 1)
                               \o [gen_imports(e.paths[1], e.impas) EXCEPT ![1] = <<closeindent>> \o @]
                      ELSE stmts \o gen_imports(e.paths[1], e.impas)
                 ELSE (IF merge THEN [stmts EXCEPT ![Len(stmts)] = @ \o guard]
                       ELSE Append(stmts, guard))
                          \o open_first(gen_imports(e.paths[1], e.impas))
                          \o << <<closeindent, "else:">> >>
                          \o open_first(gen_imports(e.paths[2], e.impas))
                          \o << <<closeindent>> >>)

\* import_handle (1828-1890): ok and the lines of the statement, or the
\* error for from __future__
import_handle(imp_from, imports, ver) ==
    IF imp_from = <<"__future__">>
    THEN [ok |-> FALSE, stmts |-> <<>>]
    ELSE [ok |-> TRUE,
          stmts |-> import_stmts([i \in 1..Len(imports) |-> importmap_entry(imp_from, imports[i], ver)],
                                 1, <<>>)]

MaxImports == 2

\* import names [as alias]
ImportNames == {
    << <<"queue">> >>, << <<"queue">>, <<"q">> >>, << <<"os">> >>,
    << <<"os", DOT, "path">> >>, << <<"urllib", DOT, "request">> >>,
    << <<"tkinter", DOT, "foo">> >>, << <<"email", DOT, "mime", DOT, "text">> >>,
    << <<"collections", DOT, "abc">> >> }

\* from module import name [as alias]
ImportFroms == { <<>>, <<"queue">>, <<"io">>, <<"os">>, <<"tkinter", DOT, "foo">>, <<"__future__">> }

FromNames == { << <<"Queue">> >>, << <<"StringIO">> >>, << <<"StringIO">>, <<"S">> >> }

InitImport ==
    /\ InitProcessor
    /\ version \in versions
    /\ strict = FALSE
    /\ \E imp_from \in ImportFroms : \E n \in 1..MaxImports :
       \E imports \in [1..n -> IF imp_from = <<>> THEN ImportNames ELSE FromNames] :
           call = [op |-> "import", stage |-> "tokens", imp_from |-> imp_from,
                   imports |-> imports, stmts |-> <<>>]

ImportHandle ==
    /\ call.op = "import" /\ call.stage = "tokens"
    /\ \E r \in {import_handle(call.imp_from, call.imports, version)} :
           call' = [call EXCEPT !.stage = IF r.ok THEN "done" ELSE "CoconutSyntaxError",
                                !.stmts = r.stmts]
    /\ UNCHANGED <<config, perparse>>

NextImport == ImportHandle

SpecImport == InitImport /\ [][NextImport]_vars

\* what the emitted statement does, read off its lines: the version guards
\* in order, and the imports with the branch they stand in
token_index(s, c) == IF has_token_in(s, c) THEN CHOOSE i \in 1..Len(s) : s[i] = c /\ \A j \in 1..(i - 1) : s[j] # c ELSE 0

RECURSIVE strip_indents(_)
strip_indents(line) ==
    IF line # <<>> /\ line[1] \in {openindent, closeindent} THEN strip_indents(Tail(line)) ELSE line

indent_delta(line) == Count(line, openindent) - Count(line, closeindent)

guard_prefix == "if _coconut_sys.version_info < "

import_fact(branch, b) ==
    LET a == token_index(b, " as ")
        head == IF a = 0 THEN b ELSE SubSeq(b, 1, a - 1)
        m == token_index(head, " import ")
        name == IF m = 0 THEN SubSeq(head, 2, Len(head)) ELSE SubSeq(head, m + 1, Len(head))
    IN  [branch |-> branch,
         from |-> IF m = 0 THEN <<>> ELSE SubSeq(head, 2, m - 1),
         name |-> name,
         as |-> IF a = 0 THEN name ELSE SubSeq(b, a + 1, Len(b))]

RECURSIVE read_stmts(_, _, _, _, _)
read_stmts(stmts, i, level, branch, acc) ==
    IF i > Len(stmts) THEN [acc EXCEPT !.level = level]
    ELSE LET b == strip_indents(stmts[i])
             lv == level + indent_delta(stmts[i])
             n == Len(acc.imports)
         IN  IF b # <<>> /\ b[1] = guard_prefix /\ lv = 0
             THEN read_stmts(stmts, i + 1, lv, "if",
                     [acc EXCEPT !.guards = Append(@, SubSeq(b, 2, Len(b) - 1))])
             ELSE IF b = <<"else:">> /\ lv = 0 /\ branch = "if"
             THEN read_stmts(stmts, i + 1, lv, "else", acc)
             ELSE LET br == IF lv = 0 /\ branch = "else" THEN "top" ELSE branch
                  IN  IF b # <<>> /\ b[1] \in {"import ", "from "}
                      THEN read_stmts(stmts, i + 1, lv, br,
                              [acc EXCEPT !.imports = Append(@, import_fact(br, b))])
                      ELSE IF Len(b) > 2 /\ SubSeq(b, Len(b) - 1, Len(b)) = <<" = ", import_as_var>>
                                /\ n > 0 /\ acc.imports[n].as = <<import_as_var>>
                      THEN read_stmts(stmts, i + 1, lv, br,
                              [acc EXCEPT !.imports[n].as = SubSeq(b, 1, Len(b) - 2)])
                      ELSE read_stmts(stmts, i + 1, lv, br, acc)

emitted == read_stmts(call.stmts, 1, 0, "top", [guards |-> <<>>, imports |-> <<>>, level |-> 0])

\* what the statement was asked to import: the components of the module
\* name, the longest prefix of them that is in the table, the legacy name
components(imp_from, imp) == (IF imp_from = <<>> THEN <<>> ELSE split_dot(imp_from)) \o split_dot(imp)

table_prefixes(comps) == { k \in 1..Len(comps) : in_new_to_old(join_dot(SubSeq(comps, 1, k))) }

longest_prefix(comps) == CHOOSE k \in table_prefixes(comps) : \A j \in table_prefixes(comps) : j <= k

new_import(branch, imp_from, item) ==
    [branch |-> branch, from |-> imp_from, name |-> item[1], as |-> item[Len(item)]]

legacy_import(branch, imp_from, item) ==
    LET comps == components(imp_from, item[1])
        k == longest_prefix(comps)
        old == new_to_old(join_dot(SubSeq(comps, 1, k))).old
        nfrom == Len(comps) - Len(split_dot(item[1]))
        with(rest) == IF rest = <<>> THEN old ELSE old \o <<DOT>> \o join_dot(rest)
    IN  IF imp_from = <<>> \/ k > nfrom
        THEN [branch |-> branch, from |-> <<>>, name |-> with(SubSeq(comps, k + 1, Len(comps))),
              as |-> item[Len(item)]]
        ELSE [branch |-> branch, from |-> with(SubSeq(comps, k + 1, nfrom)), name |-> item[1],
              as |-> item[Len(item)]]

table_version(imp_from, item) ==
    new_to_old(join_dot(SubSeq(components(imp_from, item[1]), 1,
                               longest_prefix(components(imp_from, item[1]))))).version_check

in_table(imp_from, item) == table_prefixes(components(imp_from, item[1])) # {}

guarded(imp_from, item) == in_table(imp_from, item) /\ version = None

\* the cases the table's rule speaks of: every target for entries of
\* version (3,), and the targets "2" and universal for the others
in_rule(imp_from, item) ==
    in_table(imp_from, item) /\ version = "3" => table_version(imp_from, item) = <<3>>

RECURSIVE expected_imports(_, _, _)
expected_imports(imp_from, imports, i) ==
    IF i > Len(imports) THEN <<>>
    ELSE (IF ~in_table(imp_from, imports[i]) THEN <<new_import("top", imp_from, imports[i])>>
          ELSE IF version = "2" THEN <<legacy_import("top", imp_from, imports[i])>>
          ELSE IF version = None
          THEN <<legacy_import("if", imp_from, imports[i]), new_import("else", imp_from, imports[i])>>
          ELSE <<new_import("top", imp_from, imports[i])>>)
         \o expected_imports(imp_from, imports, i + 1)

RECURSIVE expected_guards(_, _, _)
expected_guards(imp_from, imports, i) ==
    IF i > Len(imports) THEN <<>>
    ELSE (IF guarded(imp_from, imports[i]) THEN <<str_tuple(table_version(imp_from, imports[i]))>>
          ELSE <<>>)
         \o expected_guards(imp_from, imports, i + 1)

import_handled == call.op = "import" /\ call.stage = "done"

\* C15: for an import whose module name or its longest dotted prefix is in
\* the new-to-old table, target "2" imports only the legacy name, the
\* universal target emits the guard on the version of the table with the
\* legacy name in its first branch and the new name in its else branch, both
\* under the same alias, and target "3" with the table version (3,) imports
\* only the new name; a module not in the table is imported unchanged
C15_ImportsByTarget ==
    import_handled /\ (\A i \in 1..Len(call.imports) : in_rule(call.imp_from, call.imports[i]))
        => /\ emitted.imports = expected_imports(call.imp_from, call.imports, 1)
           /\ emitted.guards = expected_guards(call.imp_from, call.imports, 1)
           /\ emitted.level = 0

\* a universal import of a dotted module of the table next to one that is not
C15_Witness ==
    /\ import_handled /\ version = None
    /\ call.imports = << << <<"tkinter", DOT, "foo">> >>, << <<"os", DOT, "path">> >> >>
    /\ emitted.guards = << <<"(", "3", ",)">> >>
    /\ Len(emitted.imports) = 3

\* with target "3" collections.abc, of version (3, 3), is still guarded
GuardedOnTarget3 ==
    import_handled /\ version = "3" /\ call.imports = << << <<"collections", DOT, "abc">> >> >>
        => emitted.guards = << <<"(", "3", ",", " ", "3", ")">> >>

(***************************************************************************)
(* Specification SpecEvaluate: ComputationNode.evaluate with an action     *)
(* that may raise (compiler/util.py 217-240).                              *)
(*                                                                         *)
(* An exception is a record [cls, msg, item]; cls is one of the classes    *)
(* below, with the base classes Python and coconut.exceptions give them.   *)
(* embed_on_internal_exc is a constant of coconut.constants that evaluate  *)
(* reads; both of its values are modelled.                                 *)
(***************************************************************************)
ExceptionClasses ==
    {"CoconutException", "CoconutSyntaxError", "CoconutInternalException",
     "ValueError", "AssertionError", "KeyboardInterrupt"}

bases(cls) ==
    CASE cls = "CoconutException" -> {"CoconutException", "Exception", "BaseException"}
      [] cls = "CoconutSyntaxError" -> {"CoconutSyntaxError", "CoconutException", "Exception", "BaseException"}
      [] cls = "CoconutInternalException" -> {"CoconutInternalException", "CoconutException", "Exception", "BaseException"}
      [] cls = "ValueError" -> {"ValueError", "Exception", "BaseException"}
      [] cls = "AssertionError" -> {"AssertionError", "Exception", "BaseException"}
      [] OTHER -> {cls, "BaseException"}

NoExc == [cls |-> None, msg |-> <<>>, item |-> <<>>]

\* a variant whose first handler catches nothing
caught_by_first_never(exc) == FALSE

\* except CoconutException:
caught_by_first(exc) == "CoconutException" \in bases(exc.cls)

\* except (Exception, AssertionError):
caught_by_second(exc) == bases(exc.cls) \cap {"Exception", "AssertionError"} # {}

\* ComputationNode.evaluate (217-240) of a node whose action returns
\* (raises = NoExc) or raises; the children's actions return.  The result
\* is how evaluate ended, the value returned or the exception raised, and
\* what the logger and embed were given
evaluate(node, name, raises, embed_on_internal_exc) ==
    LET evaluated_toks == evaluate_tokens(tok_pr(node.list, node.dict), <<>>, <<>>).v
        error == [cls |-> "CoconutInternalException",
                  msg |-> <<"error computing action ", name, " of evaluated tokens">>,
                  item |-> evaluated_toks]
        quiet == [print_exc |-> FALSE, warn_err |-> NoExc, embed |-> FALSE]
    IN  IF raises = NoExc
        THEN [ended |-> "return", value |-> tok_val(node.id), exc |-> NoExc] @@ quiet
        ELSE IF caught_by_first(raises)
        THEN [ended |-> "raise", value |-> None, exc |-> raises] @@ quiet
        ELSE IF caught_by_second(raises)
        THEN IF embed_on_internal_exc
             THEN [ended |-> "return", value |-> None, exc |-> NoExc,
                   print_exc |-> TRUE, warn_err |-> error, embed |-> TRUE]
             ELSE [ended |-> "raise", value |-> None, exc |-> error,
                   print_exc |-> TRUE, warn_err |-> NoExc, embed |-> FALSE]
        ELSE [ended |-> "raise", value |-> None, exc |-> raises] @@ quiet

\* the tokens of the node: strings, and a node below whose action returns
EvaluateTokens == {
    tok_pr(<<>>, <<>>),
    tok_pr(<<tok_str("a")>>, <<>>),
    tok_pr(<<tok_str("a"), tok_node(2, tok_pr(<<tok_str("b")>>, <<>>))>>, <<>>),
    tok_pr(<<tok_node(2, tok_pr(<<>>, <<>>))>>,
           <<[name |-> "n", value |-> tok_node(2, tok_pr(<<>>, <<>>))]>>) }

ActionNames == {"pipe_handle", "import_handle"}

RaisedByAction ==
    {NoExc} \cup { [cls |-> c, msg |-> <<"m">>, item |-> <<>>] : c \in ExceptionClasses }

InitEvaluate ==
    /\ InitProcessor
    /\ version = None
    /\ strict = FALSE
    /\ \E tokens \in EvaluateTokens : \E name \in ActionNames :
       \E raises \in RaisedByAction : \E embed_on_internal_exc \in BOOLEAN :
           call = [op |-> "evaluate", stage |-> "node", node |-> tok_node(1, tokens),
                   name |-> name, raises |-> raises,
                   embed_on_internal_exc |-> embed_on_internal_exc,
                   result |-> [ended |-> None]]

Evaluate ==
    /\ call.op = "evaluate" /\ call.stage = "node"
    /\ \E r \in {evaluate(call.node, call.name, call.raises, call.embed_on_internal_exc)} :
           call' = [call EXCEPT !.stage = "evaluated", !.result = r]
    /\ UNCHANGED <<config, perparse>>

NextEvaluate == Evaluate

SpecEvaluate == InitEvaluate /\ [][NextEvaluate]_vars

action_failed == call.op = "evaluate" /\ call.stage = "evaluated" /\ call.raises # NoExc

child_tokens_evaluated ==
    evaluate_tokens(tok_pr(call.node.list, call.node.dict), <<>>, <<>>).v

is_internal_error_of_action(exc) ==
    /\ exc.cls = "CoconutInternalException"
    /\ \E i \in 1..Len(exc.msg) : exc.msg[i] = call.name
    /\ exc.item = child_tokens_evaluated

\* C16 as stated: a CoconutException of the action is propagated unchanged,
\* every other exception of the action becomes a raised
\* CoconutInternalException naming the action and carrying the evaluated
\* child tokens, and evaluate never returns after the action failed
C16_OtherExceptionsRaisedAsInternal ==
    action_failed
        => /\ call.result.ended = "raise"
           /\ IF "CoconutException" \in bases(call.raises.cls)
              THEN call.result.exc = call.raises
              ELSE is_internal_error_of_action(call.result.exc)

\* C16: a CoconutException of the action, and an exception that is not an
\* Exception (KeyboardInterrupt), is propagated unchanged; every other
\* Exception becomes a CoconutInternalException naming the action and
\* carrying the evaluated child tokens, which is raised when
\* embed_on_internal_exc is off and given to logger.warn_err before embed()
\* and a return of None when it is on; evaluate returns after a failed
\* action in that last case only
C16_ExceptionsWrappedOrEmbedded ==
    action_failed
        => IF "CoconutException" \in bases(call.raises.cls) \/ "Exception" \notin bases(call.raises.cls)
           THEN call.result.ended = "raise" /\ call.result.exc = call.raises
           ELSE IF call.embed_on_internal_exc
           THEN /\ call.result.ended = "return" /\ call.result.value = None
                /\ call.result.embed
                /\ is_internal_error_of_action(call.result.warn_err)
           ELSE call.result.ended = "raise" /\ is_internal_error_of_action(call.result.exc)

\* a ValueError of an action over a node below, wrapped and raised
C16_Witness ==
    /\ action_failed /\ call.raises.cls = "ValueError" /\ ~call.embed_on_internal_exc
    /\ call.result.exc.cls = "CoconutInternalException"
    /\ call.result.exc.item = tok_pr(<<tok_str("a"), tok_val(2)>>, <<>>)

(***************************************************************************)
(* Specification SpecPackrat: the packrat cache across parse calls         *)
(* (compiler/util.py 313-321, 340-381).                                    *)
(*                                                                         *)
(* packrat_cache is the set of the lookups pyparsing has memoized, a       *)
(* lookup being the number of a grammar element tried at some offset.      *)
(* frames is the stack of the parse calls that have not ended, the last    *)
(* one on top: [inner, at, old_cache, tried], where at is "parsing" until  *)
(* the parse action of final() runs and "evaluating" after it.  Handlers   *)
(* call parse and try_parse with inner=True while an outer parse runs.     *)
(* use_packrat_parser is a constant of coconut.constants; both values are  *)
(* modelled.                                                               *)
(***************************************************************************)
MaxDepth == 2

MaxLookups == 2

Lookups == 1..MaxLookups

\* parsing_context (340-349): what the with statement does on entry
parsing_context_enter(inner_parse, use_packrat_parser, packrat_cache) ==
    IF inner_parse /\ use_packrat_parser THEN {} ELSE packrat_cache

\* parsing_context (350-356): the finally clause
parsing_context_exit(inner_parse, use_packrat_parser, old_cache, packrat_cache) ==
    IF inner_parse /\ use_packrat_parser THEN old_cache ELSE packrat_cache

\* the finally clauses of the frames an exception passes, from the top
RECURSIVE unwind(_, _, _)
unwind(frames, use_packrat_parser, packrat_cache) ==
    IF frames = <<>> THEN packrat_cache
    ELSE unwind(SubSeq(frames, 1, Len(frames) - 1), use_packrat_parser,
                parsing_context_exit(frames[Len(frames)].inner, use_packrat_parser,
                                     frames[Len(frames)].old_cache, packrat_cache))

\* final_evaluate_tokens (313-321): the cache when it has run
final_evaluate_tokens_cache(use_packrat_parser, packrat_cache) ==
    IF use_packrat_parser THEN {} ELSE packrat_cache

packrat_call(use_packrat_parser) ==
    [op |-> "parse", use_packrat_parser |-> use_packrat_parser, packrat_cache |-> {},
     frames |-> <<>>, ended |-> None, parses |-> 0]

InitPackrat ==
    /\ InitProcessor
    /\ version = None
    /\ strict = FALSE
    /\ \E use_packrat_parser \in BOOLEAN : call = packrat_call(use_packrat_parser)

top_frame == call.frames[Len(call.frames)]

parse_running == call.op = "parse" /\ call.frames # <<>>

MaxParses == 3

\* parse(grammar, text, inner) (370-373): entering the with statement; a
\* parse that is not inner is the top-level one, an inner one is called by
\* a handler of a parse that is running
Parse ==
    /\ call.op = "parse" /\ Len(call.frames) < MaxDepth /\ call.parses < MaxParses
    /\ \E inner \in {call.frames # <<>>} :
           call' = [call EXCEPT
               !.frames = Append(@, [inner |-> inner, at |-> "parsing",
                                     old_cache |-> call.packrat_cache]),
               !.packrat_cache = parsing_context_enter(inner, call.use_packrat_parser, @),
               !.ended = None,
               !.parses = @ + 1]
    /\ UNCHANGED <<config, perparse>>

\* parseString trying an element of the grammar at an offset: with packrat
\* parsing the outcome is memoized
TryElement ==
    /\ parse_running /\ top_frame.at = "parsing" /\ call.use_packrat_parser
    /\ \E lookup \in Lookups \ call.packrat_cache :
           call' = [call EXCEPT !.packrat_cache = @ \cup {lookup}]
    /\ UNCHANGED <<config, perparse>>

\* the parse action final() adds to the root of the grammar, run when the
\* text has been matched
FinalEvaluateTokens ==
    /\ parse_running /\ top_frame.at = "parsing"
    /\ call' = [call EXCEPT
           !.frames[Len(call.frames)].at = "evaluating",
           !.packrat_cache = final_evaluate_tokens_cache(call.use_packrat_parser, @)]
    /\ UNCHANGED <<config, perparse>>

\* parse returns: the finally clause of parsing_context runs
ParseReturn ==
    /\ parse_running /\ top_frame.at = "evaluating"
    /\ call' = [call EXCEPT
           !.frames = SubSeq(@, 1, Len(@) - 1),
           !.packrat_cache = parsing_context_exit(top_frame.inner, call.use_packrat_parser,
                                                  top_frame.old_cache, @),
           !.ended = IF Len(call.frames) = 1 THEN "returned" ELSE None]
    /\ UNCHANGED <<config, perparse>>

\* the text does not match (ParseBaseException out of parseString) or a
\* handler raises during the evaluation: the exception leaves every parse
\* that is running
ParseRaise ==
    /\ parse_running
    /\ call' = [call EXCEPT
           !.frames = <<>>,
           !.packrat_cache = unwind(call.frames, call.use_packrat_parser, @),
           !.ended = "raised"]
    /\ UNCHANGED <<config, perparse>>

\* try_parse (376-381) called by a handler: the ParseBaseException of the
\* inner parse is caught and None returned
TryParseFails ==
    /\ parse_running /\ top_frame.at = "parsing" /\ top_frame.inner
    /\ call' = [call EXCEPT
           !.frames = SubSeq(@, 1, Len(@) - 1),
           !.packrat_cache = parsing_context_exit(top_frame.inner, call.use_packrat_parser,
                                                  top_frame.old_cache, @)]
    /\ UNCHANGED <<config, perparse>>

NextPackrat ==
    \/ Parse
    \/ TryElement
    \/ FinalEvaluateTokens
    \/ ParseReturn
    \/ ParseRaise
    \/ TryParseFails

SpecPackrat == InitPackrat /\ [][NextPackrat]_vars

top_level_parse_ended == call.op = "parse" /\ call.frames = <<>> /\ call.ended # None

\* C17: the packrat cache is empty after every top-level parse, whether it
\* succeeded or ended with an exception
C17_CacheEmptyAfterTopLevelParse ==
    top_level_parse_ended => call.packrat_cache = {}

\* what the code gives: the cache is empty when the top-level parse returned
CacheEmptyAfterReturn ==
    top_level_parse_ended /\ call.ended = "returned" => call.packrat_cache = {}

\* and when a handler raised after final_evaluate_tokens had run
CacheEmptyWhenRaisedInEvaluation ==
    [][parse_running /\ call.frames[1].at = "evaluating" /\ call'.ended = "raised"
          => call'.packrat_cache = {}]_vars

(***************************************************************************)
(* Specification SpecStrict: processor.pre with strict on and off, on      *)
(* texts of lines with backslashes at their ends and indentation of tabs   *)
(* and spaces.                                                             *)
(***************************************************************************)
MaxStrictFrags == 4

StrictFrags == { <<"a">>, <<BS, NL>>, <<NL>>, <<SP>>, <<TAB>>, <<HASH>> }

InitStrict ==
    /\ InitProcessor
    /\ version = None
    /\ strict \in BOOLEAN
    /\ \E n \in 0..MaxStrictFrags : \E fs \in [1..n -> StrictFrags] :
           call = pre_call(flatten(fs), <<>>)

SpecStrict == InitStrict /\ [][NextPre]_vars

\* the text ind_proc was given, when the processors before it returned
marked_input == str_proc(prepare(call.original, preargs_strip(call.mode)), clean_skips, clean_refs)

ind_proc_ran ==
    /\ call.op = "pre" /\ call.stage \in {"done", "raised"}
    /\ marked_input.ok
    /\ passthrough_proc(marked_input.out, marked_input.skips, marked_input.refs).ok

ind_proc_lines ==
    splitlines(passthrough_proc(marked_input.out, marked_input.skips, marked_input.refs).out)

\* the code of a line: what stands before its comment, without the
\* whitespace at its end
code_part(line) == rstrip(before_hash(line))

is_code_line(line) == code_part(line) # <<>>

\* a line of code that ends in a backslash and has a line after it
has_backslash_continuation ==
    \E i \in 1..(Len(ind_proc_lines) - 1) : endswith(code_part(ind_proc_lines[i]), BS)

\* the whitespace a line starts with
RECURSIVE indentation(_)
indentation(line) ==
    IF line # <<>> /\ line[1] \in {SP, TAB} THEN <<line[1]>> \o indentation(Tail(line)) ELSE <<>>

\* the lines of code are indented with tabs and with spaces
has_mixed_indentation ==
    \E i, j \in 1..Len(ind_proc_lines) :
        /\ is_code_line(ind_proc_lines[i]) /\ is_code_line(ind_proc_lines[j])
        /\ has_token_in(indentation(ind_proc_lines[i]), SP)
        /\ has_token_in(indentation(ind_proc_lines[j]), TAB)

\* C18, strict on: ind_proc fails, and so produces no output, on every
\* input that contains a backslash line continuation or mixed tab/space
\* indentation
C18_StrictFailsOnContinuationAndMixing ==
    ind_proc_ran /\ strict /\ (has_backslash_continuation \/ has_mixed_indentation)
        => call.stage = "raised"

\* what holds: with strict on ind_proc fails when the line after the
\* backslash is a line of code
StrictFailsOnContinuationOntoCode ==
    /\ ind_proc_ran /\ strict
    /\ \E i \in 1..(Len(ind_proc_lines) - 1) :
           /\ endswith(code_part(ind_proc_lines[i]), BS)
           /\ is_code_line(ind_proc_lines[i + 1])
    => call.stage = "raised"

\* with strict on a backslash before an empty line is returned as it is
StrictReturnsBackslashBeforeEmptyLine ==
    /\ ind_proc_ran /\ strict /\ call.stage = "done"
    /\ call.original = <<"a", BS, NL, NL, "a">>
    /\ has_token_in(call.text, BS)

(***************************************************************************)
(* Specification SpecReind: reind_proc (compiler.py 1619-1634) on texts of *)
(* lines with indent markers, as post gives it the text of the parser.     *)
(* original keeps the text reind_proc was given.                           *)
(***************************************************************************)
MaxReindFrags == 5

ReindFrags == { <<openindent>>, <<closeindent>>, <<"a">>, <<SP>>, <<NL>>, <<HASH>> }

InitReind ==
    /\ InitProcessor
    /\ version = None
    /\ strict = FALSE
    /\ \E n \in 0..MaxReindFrags : \E fs \in [1..n -> ReindFrags] :
           call = [parse_call("parse_block", flatten(fs), <<>>, FALSE, None, "none")
                       EXCEPT !.stage = "reind_proc"]

NextReind == ReindProc

SpecReind == InitReind /\ [][NextReind]_vars

sentinels == {openindent, closeindent}

\* the sentinels of the line stand at its beginning, before everything but
\* the whitespace the line starts with
sentinels_lead(line) ==
    \A i \in 1..Len(strip(line)) :
        strip(line)[i] \in sentinels => \A j \in 1..i : strip(line)[j] \in sentinels

reind_input_lines == splitlines(call.original)

sentinels_only_at_line_starts == \A i \in 1..Len(reind_input_lines) : sentinels_lead(reind_input_lines[i])

\* OPEN minus CLOSE sentinels in the lines 1..i
RECURSIVE level_upto(_, _)
level_upto(lines, i) ==
    IF i = 0 THEN 0
    ELSE level_upto(lines, i - 1) + Count(lines[i], openindent) - Count(lines[i], closeindent)

\* the line without the whitespace around it and without its sentinels
rest_of(line) == SelectSeq(strip(line), LAMBDA c : c \notin sentinels)

\* text.split("\n")
RECURSIVE split_nl_from(_, _, _)
split_nl_from(s, i, cur) ==
    IF i > Len(s) THEN <<cur>>
    ELSE IF s[i] = NL THEN <<cur>> \o split_nl_from(s, i + 1, <<>>)
    ELSE split_nl_from(s, i + 1, Append(cur, s[i]))

split_nl(s) == split_nl_from(s, 1, <<>>)

RECURSIVE leading_spaces(_)
leading_spaces(line) == IF line # <<>> /\ line[1] = SP THEN 1 + leading_spaces(Tail(line)) ELSE 0

reind_done == call.mode = "parse_block" /\ call.stage = "repl_proc" /\ call.prev = "none"
                  /\ call.units = <<>> /\ call.marked = <<>>

reind_output_lines == split_nl(call.text)

\* no line closes more indents than were opened, as in what ind_proc emits
level_never_negative == \A i \in 1..Len(reind_input_lines) : level_upto(reind_input_lines, i) >= 0

\* C19 as stated: for a text with the sentinels only at the beginning of
\* lines the output holds no sentinel, and every non-empty non-comment line
\* is indented by exactly 4 * (OPEN minus CLOSE so far) spaces; read for
\* the texts whose level never falls below zero
C19_IndentedByExactlyFourPerLevel ==
    reind_done /\ sentinels_only_at_line_starts /\ reind_input_lines # <<>> /\ level_never_negative
        => /\ \A k \in 1..Len(call.text) : call.text[k] \notin sentinels
           /\ Len(reind_output_lines) = Len(reind_input_lines)
           /\ \A i \in 1..Len(reind_input_lines) :
                  rest_of(reind_input_lines[i]) # <<>> /\ lstrip(rest_of(reind_input_lines[i]))[1] # HASH
                      => leading_spaces(reind_output_lines[i])
                             = tablen * level_upto(reind_input_lines, i)

\* C19: for a text with the sentinels only at the beginning of lines the
\* output holds no sentinel, and every line whose rest after the sentinels
\* is not empty and not a comment is that rest after exactly
\* 4 * max(0, OPEN minus CLOSE so far) spaces, so it is indented by exactly
\* that many spaces when the rest does not begin with a space; the other
\* lines are their rest
C19_RestAfterFourSpacesPerLevel ==
    reind_done /\ sentinels_only_at_line_starts /\ reind_input_lines # <<>>
        => /\ \A k \in 1..Len(call.text) : call.text[k] \notin sentinels
           /\ Len(reind_output_lines) = Len(reind_input_lines)
           /\ \A i \in 1..Len(reind_input_lines) :
                  LET rest == rest_of(reind_input_lines[i])
                      level == level_upto(reind_input_lines, i)
                  IN  IF rest # <<>> /\ rest[1] # HASH
                      THEN /\ reind_output_lines[i] = Repeat(SP, tablen * Max(0, level)) \o rest
                           /\ rest[1] # SP => leading_spaces(reind_output_lines[i]) = tablen * Max(0, level)
                      ELSE reind_output_lines[i] = rest

\* a line after OPEN is indented and the line after CLOSE is not
C19_Witness ==
    /\ reind_done
    /\ call.original = <<openindent, "a", NL, closeindent, "a">>
    /\ call.text = <<SP, SP, SP, SP, "a", NL, "a">>

(***************************************************************************)
(* Specification SpecPassthrough: processor.pre on texts with the two      *)
(* kinds of passthrough, \\code to the end of the line and \(code), and    *)
(* comments, which take places in the side table as well.                  *)
(***************************************************************************)
MaxPassFrags == 4

PassFrags == { <<BS, BS>>, <<BS, "(">>, <<")">>, <<"a">>, <<NL>>, <<SP>>, <<HASH>> }

InitPassthrough ==
    /\ InitProcessor
    /\ version = None
    /\ strict = FALSE
    /\ \E n \in 0..MaxPassFrags : \E fs \in [1..n -> PassFrags] :
           call = pre_call(flatten(fs), <<>>)

SpecPassthrough == InitPassthrough /\ [][NextPre]_vars

\* passthrough_proc has returned: marked is the text it was given, text
\* the text it returned, refs the side table
passthrough_proc_returned == call.op = "pre" /\ call.stage = "ind_proc" /\ call.reformatted = NoReformat

free_of(s, chars) == \A i \in 1..Len(s) : s[i] \notin chars

\* the text is pre \\ body newline post, with one single-line passthrough
is_single_line(m, p, q) ==
    /\ p + 1 < q /\ q <= Len(m)
    /\ m[p] = BS /\ m[p + 1] = BS /\ m[q] = NL
    /\ free_of(SubSeq(m, 1, p - 1), {BS})
    /\ free_of(SubSeq(m, p + 2, q - 1), {NL} \cup downs \cup ups)
    /\ free_of(SubSeq(m, q + 1, Len(m)), {BS})

\* the text is pre \( body ) post, with one parenthesised passthrough
is_multi_line(m, p, q) ==
    /\ p + 1 < q /\ q <= Len(m)
    /\ m[p] = BS /\ m[p + 1] = "(" /\ m[q] = ")"
    /\ free_of(SubSeq(m, 1, p - 1), {BS})
    /\ free_of(SubSeq(m, p + 2, q - 1), downs \cup ups)
    /\ free_of(SubSeq(m, q + 1, Len(m)), {BS})

\* returned_text is m with the places p..q replaced by a marker: backslashes, the
\* decimal index of stored in the side table, the close sentinel and tail
replaced_by_marker(m, p, q, returned_text, backslashes, stored, tail) ==
    \E i \in 0..(Len(refs) - 1) :
        /\ refs[i + 1] = text_ref(stored)
        /\ returned_text = SubSeq(m, 1, p - 1) \o backslashes \o StrOfNat(i) \o <<unwrapper>> \o tail
                     \o SubSeq(m, q + 1, Len(m))

\* C20 as stated: a single-line passthrough is replaced by one backslash,
\* the decimal side-table index, the close sentinel and a newline, and a
\* multi-line (parenthesised) passthrough by two backslashes, the index and
\* the close sentinel
C20_OneBackslashForSingleLine ==
    passthrough_proc_returned =>
        \A p, q \in 1..Len(call.marked) :
            /\ is_single_line(call.marked, p, q)
                   => replaced_by_marker(call.marked, p, q, call.text, <<BS>>,
                                         lstrip(SubSeq(call.marked, p + 2, q - 1)), <<NL>>)
            /\ is_multi_line(call.marked, p, q)
                   => replaced_by_marker(call.marked, p, q, call.text, <<BS, BS>>,
                                         SubSeq(call.marked, p + 2, q - 1), <<>>)

\* C20: a single-line passthrough is replaced by two backslashes, the
\* decimal side-table index, the close sentinel and a newline, and a
\* multi-line (parenthesised) passthrough by one backslash, the index and
\* the close sentinel
C20_TwoBackslashesForSingleLine ==
    passthrough_proc_returned =>
        \A p, q \in 1..Len(call.marked) :
            /\ is_single_line(call.marked, p, q)
                   => replaced_by_marker(call.marked, p, q, call.text, <<BS, BS>>,
                                         lstrip(SubSeq(call.marked, p + 2, q - 1)), <<NL>>)
            /\ is_multi_line(call.marked, p, q)
                   => replaced_by_marker(call.marked, p, q, call.text, <<BS>>,
                                         SubSeq(call.marked, p + 2, q - 1), <<>>)

\* a single-line passthrough that is the second entry of the side table
C20_Witness ==
    /\ passthrough_proc_returned
    /\ \E p, q \in 1..Len(call.marked) : is_single_line(call.marked, p, q)
    /\ \E k \in 1..(Len(call.text) - 3) :
           SubSeq(call.text, k, k + 3) = <<BS, BS, "1", unwrapper>>

\* a parenthesised passthrough with code in it
MultiLinePassthroughMarked ==
    /\ passthrough_proc_returned
    /\ \E p, q \in 1..Len(call.marked) : is_multi_line(call.marked, p, q) /\ q > p + 2
    /\ \E k \in 1..(Len(call.text) - 2) : SubSeq(call.text, k, k + 2) = <<BS, "0", unwrapper>>

(***************************************************************************)
(* Specification SpecPycondition: base_pycondition (compiler/header.py     *)
(* 103-152) over the targets, with get_vers_for_target (compiler/util.py   *)
(* 435-452).  A version is a tuple of numbers, a target the sequence of    *)
(* its digits ("" is the universal target), code a sequence of tokens.     *)
(* The supported versions are constants of coconut.constants, and          *)
(* get_target_info and _indent are defined in coconut.util and             *)
(* coconut.root.                                                           *)
(***************************************************************************)
supported_py2_vers == << <<2, 6>>, <<2, 7>> >>

supported_py3_vers == << <<3, 2>>, <<3, 3>>, <<3, 4>>, <<3, 5>>, <<3, 6>> >>

\* the tuple of the major and, if given, the minor version of the target
get_target_info(target) ==
    IF target = <<>> THEN <<>>
    ELSE IF Len(target) = 1 THEN <<IntOfStr(target)>>
    ELSE <<IntOfStr(<<target[1]>>), IntOfStr(Tail(target))>>

\* every line that is not blank after by * tabideal spaces
indent_by(code, by) ==
    LET lines == split_nl(code)
    IN  join(<<NL>>, [i \in 1..Len(lines) |->
             IF strip(lines[i]) # <<>> THEN Repeat(SP, 4 * by) \o lines[i] ELSE lines[i]])

tuple_ge(a, b) == ~tuple_less(a, b)

\* get_vers_for_target (435-452); the targets are those of specific_targets
get_vers_for_target(target) ==
    LET target_info == get_target_info(target)
    IN  IF target_info = <<>> THEN supported_py2_vers \o supported_py3_vers
        ELSE IF Len(target_info) = 1
        THEN IF target_info = <<2>> THEN supported_py2_vers ELSE supported_py3_vers
        ELSE IF target_info[1] = 2
        THEN SelectSeq(supported_py2_vers, LAMBDA tar_ver : tuple_ge(tar_ver, target_info))
        ELSE SelectSeq(supported_py3_vers, LAMBDA tar_ver : tuple_ge(tar_ver, target_info))

\* all(tar_ver < ver for tar_ver in target_supported_vers)
all_vers_lt(target_supported_vers, ver) ==
    \A i \in 1..Len(target_supported_vers) : tuple_less(target_supported_vers[i], ver)

\* a variant that wants every supported version above ver
all_vers_gt(target_supported_vers, ver) ==
    \A i \in 1..Len(target_supported_vers) : tuple_less(ver, target_supported_vers[i])

\* all(tar_ver >= ver for tar_ver in target_supported_vers)
all_vers_ge(target_supported_vers, ver) ==
    \A i \in 1..Len(target_supported_vers) : tuple_ge(target_supported_vers[i], ver)

\* repr(ver)
repr_tuple(ver) == str_tuple(ver)

\* base_pycondition; if_lt and if_ge are <<>> when absent, indent is <<>>
\* for None or holds the number
base_pycondition(target, ver, if_lt0, if_ge0, indent, newline, fallback) ==
    LET if_lt == strip(if_lt0)
        if_ge == strip(if_ge0)
        target_supported_vers == get_vers_for_target(target)
        finish(code) == (IF indent # <<>> THEN indent_by(code, indent[1]) ELSE code)
                            \o (IF newline THEN <<NL>> ELSE <<>>)
    IN  IF all_vers_lt(target_supported_vers, ver)
        THEN IF if_lt = <<>> THEN fallback ELSE finish(if_lt)
        ELSE IF all_vers_ge(target_supported_vers, ver)
        THEN IF if_ge = <<>> THEN fallback ELSE finish(if_ge)
        ELSE IF if_lt # <<>> /\ if_ge # <<>>
        THEN finish(<<"if _coconut_sys.version_info < ">> \o repr_tuple(ver) \o <<":", NL>>
                        \o indent_by(if_lt, 1) \o <<NL, "else:", NL>> \o indent_by(if_ge, 1))
        ELSE IF if_lt # <<>>
        THEN finish(<<"if _coconut_sys.version_info < ">> \o repr_tuple(ver) \o <<":", NL>>
                        \o indent_by(if_lt, 1))
        ELSE finish(<<"if _coconut_sys.version_info >= ">> \o repr_tuple(ver) \o <<":", NL>>
                        \o indent_by(if_ge, 1))

PyTargets == { <<>>, <<"2">>, <<"3">>, <<"2", "6">>, <<"2", "7">>, <<"3", "2">>,
               <<"3", "3">>, <<"3", "5">>, <<"3", "6">> }

PyVers == { <<2, 6>>, <<2, 7>>, <<3>>, <<3, 3>>, <<3, 4>>, <<3, 6>>, <<3, 7>> }

LtFragments == { <<>>, <<SP, "old", NL, "more">> }

GeFragments == { <<>>, <<"new", NL>> }

InitPycondition ==
    /\ InitProcessor
    /\ version = None
    /\ strict = FALSE
    /\ \E target \in PyTargets : \E ver \in PyVers :
       \E if_lt \in LtFragments : \E if_ge \in GeFragments :
       \E indent \in {<<>>, <<1>>} : \E newline \in BOOLEAN : \E fallback \in {<<>>, <<"pass">>} :
           /\ if_lt # <<>> \/ if_ge # <<>>
           /\ call = [op |-> "pycondition", stage |-> "args", target |-> target, ver |-> ver,
                      if_lt |-> if_lt, if_ge |-> if_ge, indent |-> indent, newline |-> newline,
                      fallback |-> fallback, result |-> <<>>]

BasePycondition ==
    /\ call.op = "pycondition" /\ call.stage = "args"
    /\ \E r \in {base_pycondition(call.target, call.ver, call.if_lt, call.if_ge, call.indent,
                                  call.newline, call.fallback)} :
           call' = [call EXCEPT !.stage = "returned", !.result = r]
    /\ UNCHANGED <<config, perparse>>

NextPycondition == BasePycondition

SpecPycondition == InitPycondition /\ [][NextPycondition]_vars

\* the versions the target stands for, as a set
all_supported == { supported_py2_vers[i] : i \in 1..Len(supported_py2_vers) }
                     \cup { supported_py3_vers[i] : i \in 1..Len(supported_py3_vers) }

supported_by(target) ==
    { v \in all_supported :
        /\ target # <<>> => v[1] = IntOfStr(<<target[1]>>)
        /\ Len(target) > 1 => v[2] >= IntOfStr(Tail(target)) }

has_runtime_test(code) ==
    \E i \in 1..Len(code) :
        code[i] \in {"if _coconut_sys.version_info < ", "if _coconut_sys.version_info >= "}

\* the code without its spaces and newlines
words(code) == SelectSeq(code, LAMBDA c : c \notin {SP, NL})

pycondition_returned == call.op = "pycondition" /\ call.stage = "returned"

\* C21: when every version the target supports is below ver the result is
\* the if_lt fragment, or the fallback when there is none, when every one is
\* at or above ver it is the if_ge fragment or the fallback, in both cases
\* without a test of version_info; the test is emitted only when supported
\* versions lie on both sides of ver
C21_DecidedWhenTargetPinsOneSide ==
    pycondition_returned =>
        LET vers_below == { v \in supported_by(call.target) : tuple_less(v, call.ver) }
            vers_above == supported_by(call.target) \ vers_below
        IN  /\ vers_above = {} =>
                /\ ~has_runtime_test(call.result)
                /\ IF call.if_lt = <<>> THEN call.result = call.fallback
                   ELSE words(call.result) = words(call.if_lt)
            /\ vers_below = {} =>
                /\ ~has_runtime_test(call.result)
                /\ IF call.if_ge = <<>> THEN call.result = call.fallback
                   ELSE words(call.result) = words(call.if_ge)
            /\ has_runtime_test(call.result) => vers_below # {} /\ vers_above # {}

\* target 3 and a version of Python 3 that only some of its versions reach
C21_Witness ==
    /\ pycondition_returned
    /\ call.target = <<"3">> /\ call.ver = <<3, 4>>
    /\ has_runtime_test(call.result)

\* target 3.5 pins the side at or above 3.4
DecidedForSpecificTarget ==
    /\ pycondition_returned
    /\ call.target = <<"3", "5">> /\ call.ver = <<3, 4>> /\ call.if_ge # <<>>
    /\ words(call.result) = <<"new">>

(***************************************************************************)
(* attach (compiler/util.py 284-305) and ComputationNode.__new__           *)
(* (184-208).  An optional argument is <<>> for None and <<v>> for the     *)
(* value v; attrs holds the annotations of the action read with getattr,   *)
(* and should_trim_arity(action).                                          *)
(***************************************************************************)
opt_or(arg, default) == IF arg = <<>> THEN default ELSE arg[1]

\* the parse action attach gives to add_action: the action itself, or
\* partial(ComputationNode, action, **kwargs) with the keyword arguments
\* that differ from the defaults
attach(attrs, ignore_no_tokens, ignore_one_token, ignore_tokens, trim_arity, kwargs, USE_COMPUTATION_GRAPH) ==
    IF ~opt_or(ignore_tokens, attrs.ignore_tokens) /\ USE_COMPUTATION_GRAPH
    THEN [partial |-> TRUE,
          ignore_no_tokens |-> opt_or(ignore_no_tokens, attrs.ignore_no_tokens),
          ignore_one_token |-> opt_or(ignore_one_token, attrs.ignore_one_token),
          greedy |-> kwargs.greedy,
          trim_arity |-> opt_or(trim_arity, attrs.should_trim_arity)]
    ELSE [partial |-> FALSE, ignore_no_tokens |-> FALSE, ignore_one_token |-> FALSE,
          greedy |-> FALSE, trim_arity |-> FALSE]

\* a variant that never defers the action
ComputationNode_new_greedy(ntokens, ignore_no_tokens, ignore_one_token, greedy) ==
    IF ignore_no_tokens /\ ntokens = 0 THEN [returns |-> "empty list", action_called |-> FALSE]
    ELSE IF ignore_one_token /\ ntokens = 1 THEN [returns |-> "tokens[0]", action_called |-> FALSE]
    ELSE [returns |-> "evaluated", action_called |-> TRUE]

\* ComputationNode.__new__: what the call returns and whether it called the
\* action (self.evaluate() when greedy)
ComputationNode_new(ntokens, ignore_no_tokens, ignore_one_token, greedy) ==
    IF ignore_no_tokens /\ ntokens = 0 THEN [returns |-> "empty list", action_called |-> FALSE]
    ELSE IF ignore_one_token /\ ntokens = 1 THEN [returns |-> "tokens[0]", action_called |-> FALSE]
    ELSE IF greedy THEN [returns |-> "evaluated", action_called |-> TRUE]
    ELSE [returns |-> "node", action_called |-> FALSE]

\* the parse action runs when the item matches ntokens tokens
parse_action(pa, ntokens) ==
    IF pa.partial
    THEN ComputationNode_new(ntokens, pa.ignore_no_tokens, pa.ignore_one_token, pa.greedy)
    ELSE [returns |-> "evaluated", action_called |-> TRUE]

\* final_evaluate_tokens (313-321) on what the parse action returned: a
\* ComputationNode is evaluated, which calls its action
final_evaluate_tokens(returned_tokens, USE_COMPUTATION_GRAPH) ==
    [action_called |-> USE_COMPUTATION_GRAPH /\ returned_tokens = "node"]

(***************************************************************************)
(* Specification SpecAttach: an action is attached to a grammar item, the  *)
(* item matches during a parse, and the tokens of the parse are evaluated. *)
(***************************************************************************)
MaxTokens == 2

OptBool == { <<>>, <<TRUE>>, <<FALSE>> }

ActionAttrs == [ignore_tokens : BOOLEAN, ignore_no_tokens : BOOLEAN,
                ignore_one_token : BOOLEAN, should_trim_arity : BOOLEAN]

NoParseAction == [partial |-> FALSE, ignore_no_tokens |-> FALSE, ignore_one_token |-> FALSE,
                  greedy |-> FALSE, trim_arity |-> FALSE]

InitAttach ==
    /\ InitProcessor
    /\ version = None
    /\ strict = FALSE
    /\ \E attrs \in ActionAttrs : \E ignore_no_tokens \in OptBool :
       \E ignore_one_token \in OptBool : \E ignore_tokens \in OptBool :
       \E greedy \in BOOLEAN : \E USE_COMPUTATION_GRAPH \in BOOLEAN :
           call = [op |-> "attach", stage |-> "grammar", attrs |-> attrs,
                   ignore_no_tokens |-> ignore_no_tokens,
                   ignore_one_token |-> ignore_one_token,
                   ignore_tokens |-> ignore_tokens, greedy |-> greedy,
                   USE_COMPUTATION_GRAPH |-> USE_COMPUTATION_GRAPH,
                   action |-> NoParseAction, ntokens |-> 0, returned |-> None,
                   called_in_parse |-> FALSE, called_in_evaluation |-> FALSE]

AttachItem ==
    /\ call.op = "attach" /\ call.stage = "grammar"
    /\ call' = [call EXCEPT !.stage = "parsing",
                    !.action = attach(call.attrs, call.ignore_no_tokens, call.ignore_one_token,
                                      call.ignore_tokens, <<>>, [greedy |-> call.greedy],
                                      call.USE_COMPUTATION_GRAPH)]
    /\ UNCHANGED <<config, perparse>>

ParseAction ==
    /\ call.op = "attach" /\ call.stage = "parsing"
    /\ \E ntokens \in 0..MaxTokens : \E r \in {parse_action(call.action, ntokens)} :
           call' = [call EXCEPT !.stage = "parsed", !.ntokens = ntokens,
                                !.returned = r.returns,
                                !.called_in_parse = r.action_called]
    /\ UNCHANGED <<config, perparse>>

EvaluateParsed ==
    /\ call.op = "attach" /\ call.stage = "parsed"
    /\ \E r \in {final_evaluate_tokens(call.returned, call.USE_COMPUTATION_GRAPH)} :
           call' = [call EXCEPT !.stage = "evaluated", !.called_in_evaluation = r.action_called]
    /\ UNCHANGED <<config, perparse>>

NextAttach == AttachItem \/ ParseAction \/ EvaluateParsed

SpecAttach == InitAttach /\ [][NextAttach]_vars

item_parsed == call.op = "attach" /\ call.stage \in {"parsed", "evaluated"}

\* what attach was asked for: the tokens are ignored, the action is greedy
asked_ignore_tokens ==
    IF call.ignore_tokens = <<>> THEN call.attrs.ignore_tokens ELSE call.ignore_tokens[1]

GreedyCalledInParse ==
    /\ item_parsed /\ call.action.partial /\ call.greedy /\ call.called_in_parse

\* an action attached with ignore_tokens was called during the parse
IgnoreTokensCalledInParse ==
    /\ item_parsed /\ call.USE_COMPUTATION_GRAPH /\ asked_ignore_tokens /\ call.called_in_parse

(***************************************************************************)
(* The guard of a match statement in the emitted code (match_handle,       *)
(* compiler.py 1070-1072; out, 1044-1057): a level of a matcher is written *)
(* as `if (checks):` followed by its defs, and the next level inside it.   *)
(***************************************************************************)
code_emitted == call.op = "match" /\ call.stage \in {"code", "run", "raised", "done"}

\* the levels of a matcher's code whose checks hold the guard
guard_levels(checkdefs) ==
    { i \in 1..Len(checkdefs) :
        \E k \in 1..Len(checkdefs[i].checks) : checkdefs[i].checks[k].t = "cond" }

\* the levels whose defs assign the name of the pattern
binding_levels(checkdefs) ==
    { i \in 1..Len(checkdefs) :
        \E k \in 1..Len(checkdefs[i].defs) : checkdefs[i].defs[k].t = "setvar" }

\* the guard of the matcher's code is in an if below every assignment
guard_follows_bindings(checkdefs) ==
    /\ guard_levels(checkdefs) # {}
    /\ \A g \in guard_levels(checkdefs) : \A b \in binding_levels(checkdefs) : b < g

\* C25: in the code emitted for a match with a guard, the guard is tested in
\* an if nested after every assignment of the name the pattern binds, in the
\* code of the main matcher and of every `or` alternative, iterator patterns
\* included
C25_GuardAfterEveryBinding ==
    (code_emitted /\ call.cond # "none") =>
        \A k \in 1..Len(call.code) : guard_follows_bindings(call.code[k])

\* what holds: the same for the patterns without or and without iterator
GuardAfterBindingWithoutOrAndIterator ==
    (code_emitted /\ call.cond # "none" /\ ~has_kind(call.matches, "or")
        /\ ~has_kind(call.matches, "iter")) =>
        \A k \in 1..Len(call.code) : guard_follows_bindings(call.code[k])

\* code with a guard and an assignment was emitted for a pattern without or
\* and without iterator
GuardedBindingEmitted ==
    /\ code_emitted /\ call.cond # "none"
    /\ ~has_kind(call.matches, "or") /\ ~has_kind(call.matches, "iter")
    /\ \E k \in 1..Len(call.code) : binding_levels(call.code[k]) # {}

\* C28: match_handle never raises CoconutException on a pattern of the
\* grammar: set_position is never called with a position below 1
C28_NoInvalidMatchIndex ==
    call.op = "match" => call.stage # "CoconutException"

\* what holds: no pattern with an iterator inside a later `or` alternative
\* raises
RECURSIVE iter_in_later_alternative(_)
iter_in_later_alternative(p) ==
    \/ p.t = "or" /\ has_kind(p.ps[2], "iter")
    \/ \E i \in 1..Len(p.ps) : iter_in_later_alternative(p.ps[i])

InvalidMatchIndexOnlyInLaterAlternative ==
    (call.op = "match" /\ call.stage = "CoconutException")
        => iter_in_later_alternative(call.matches)

(***************************************************************************)
(* Specification SpecLeading: processor.leading is called on a line.       *)
(***************************************************************************)
MaxLeadLen == 4

LeadChars == {SP, TAB, "a"}

InitLeading ==
    /\ InitProcessor
    /\ version = None
    /\ strict \in BOOLEAN
    /\ \E n \in 0..MaxLeadLen : \E inputstring \in [1..n -> LeadChars] :
           call = [op |-> "leading", stage |-> "call", inputstring |-> inputstring,
                   count |-> 0, warned |-> FALSE, err |-> NoErr]

Leading ==
    /\ call.op = "leading" /\ call.stage = "call"
    /\ \E r \in {leading(call.inputstring, indchar, skips, strict)} :
           /\ indchar' = r.indchar
           /\ call' = [call EXCEPT !.stage = IF r.err # NoErr THEN "raised" ELSE "returned",
                                   !.count = r.count, !.warned = r.warned, !.err = r.err]
    /\ UNCHANGED <<config, refs, docstring, ichain_count, skips>>

NextLeading == Leading

SpecLeading == InitLeading /\ [][NextLeading]_vars

\* the leading spaces and tabs of the line
RECURSIVE leading_whitespace(_)
leading_whitespace(line) ==
    IF line # <<>> /\ line[1] \in {SP, TAB}
    THEN <<line[1]>> \o leading_whitespace(Tail(line))
    ELSE <<>>

\* the width of whitespace: a space advances it by 1, a tab to the next
\* multiple of tabworth
RECURSIVE indent_width(_)
indent_width(ws) ==
    IF ws = <<>> THEN 0
    ELSE LET w == indent_width(SubSeq(ws, 1, Len(ws) - 1))
         IN  IF ws[Len(ws)] = SP THEN w + 1 ELSE (w \div tabworth + 1) * tabworth

leading_returned == call.op = "leading" /\ call.stage = "returned"

\* C26: leading returns the indent width of the leading whitespace of the
\* line, where a space advances the width by 1 and a tab advances it to the
\* next multiple of 8
C26_LeadingIsIndentWidth ==
    leading_returned => call.count = indent_width(leading_whitespace(call.inputstring))

\* what holds: the same for the lines with at most one leading tab
LeadingIsIndentWidthWithOneTab ==
    (leading_returned /\ Count(leading_whitespace(call.inputstring), TAB) <= 1)
        => call.count = indent_width(leading_whitespace(call.inputstring))

\* leading returned the width of spaces followed by a tab
SpacesThenTabReturned ==
    /\ leading_returned
    /\ leading_whitespace(call.inputstring) = <<SP, SP, TAB>>
    /\ call.count = tabworth

str_proc_ran == str_proc_returned \/ str_proc_raised

\* C27: the opener of a string is at most three quotes: str_proc never fails
\* on the number of quotes that start a string, a fourth quote being content
\* or closer, and six quotes are an empty triple-quoted string
C27_OpenerOfAtMostThreeQuotes ==
    /\ str_proc_raised => call.err.msg # "invalid number of string starts"
    /\ (str_proc_ran /\ str_proc_input = Repeat(SQ, 6)) =>
           /\ str_proc_returned
           /\ refs = <<str_ref(<<>>, SQ, TRUE)>>

\* what holds: one quote opens a single-line string, two quotes are an empty
\* string, three quotes open a triple-quoted string
OpenersOfOneTwoAndThreeQuotes ==
    /\ (str_proc_ran /\ str_proc_input = <<SQ, "a", SQ>>) =>
           (str_proc_returned /\ refs = <<str_ref(<<"a">>, SQ, FALSE)>>)
    /\ (str_proc_ran /\ str_proc_input = <<SQ, SQ>>) =>
           (str_proc_returned /\ refs = <<str_ref(<<>>, SQ, FALSE)>>)
    /\ (str_proc_ran /\ str_proc_input = <<SQ, SQ, "a">>) =>
           (str_proc_returned /\ refs = <<str_ref(<<>>, SQ, FALSE)>>
               /\ call.marked[Len(call.marked) - 1] = "a")
    /\ (str_proc_ran /\ str_proc_input = <<SQ, SQ, SQ, "a", SQ, SQ, SQ>>) =>
           (str_proc_returned /\ refs = <<str_ref(<<"a">>, SQ, TRUE)>>)

\* str_proc returned a triple-quoted string
TripleQuotedReturned ==
    /\ str_proc_returned
    /\ str_proc_input = <<SQ, SQ, SQ, "a", SQ, SQ, SQ>>

(***************************************************************************)
(* handle_indentation (compiler/util.py 1059-1087) with                    *)
(* split_leading_indent (961-973).  tabideal and indchars are imported     *)
(* from coconut.constants: tabideal spaces are one level of indentation,   *)
(* indchars are the indent sentinels and the line break.                   *)
(***************************************************************************)
tabideal == 4

indchars == {openindent, closeindent, NL}

\* split_leading_indent(inputstr) with max_indents None: <<indent, rest>>
RECURSIVE split_leading_indent(_)
split_leading_indent(inputstr) ==
    IF inputstr # <<>> /\ (inputstr[1] \in indchars \/ lstrip(inputstr) # inputstr)
    THEN Only({ <<(<<inputstr[1]>>) \o r[1], r[2]>> : r \in {split_leading_indent(Tail(inputstr))} })
    ELSE <<(<<>>), inputstr>>

\* prev_ind is None
no_prev_ind == -1

\* the indent sentinels in front of a line at level new_ind after prev_ind
indent_from(prev_ind, new_ind) ==
    IF prev_ind = no_prev_ind THEN <<>>
    ELSE IF new_ind > prev_ind THEN Repeat(openindent, new_ind - prev_ind)
    ELSE IF new_ind < prev_ind THEN Repeat(closeindent, prev_ind - new_ind)
    ELSE <<>>

\* the loop over inputstr.splitlines(): [out_lines, prev_ind, err]
RECURSIVE handle_indentation_loop(_, _, _)
handle_indentation_loop(lines, i, st0) ==
    Only({ IF i > Len(lines) \/ st.err # "" THEN st
           ELSE LET line == rstrip(lines[i])
                    new_ind_str == split_leading_indent(line)[1]
                    new_ind == Len(new_ind_str) \div tabideal
                IN  IF line = <<>> THEN handle_indentation_loop(lines, i + 1, st)
                    ELSE IF \E k \in 1..Len(new_ind_str) : new_ind_str[k] # SP
                    THEN [st EXCEPT !.err = "invalid indentation characters for handle_indentation"]
                    ELSE IF Len(new_ind_str) % tabideal # 0
                    THEN [st EXCEPT !.err = "invalid indentation level for handle_indentation"]
                    ELSE handle_indentation_loop(lines, i + 1,
                             [out_lines |-> Append(st.out_lines, indent_from(st.prev_ind, new_ind) \o line),
                              prev_ind |-> new_ind, err |-> ""])
           : st \in {st0} })

\* handle_indentation: the text returned and whether the final assertion on
\* it holds, or the error raised before; none_gt_zero is what `None > 0`
\* gives when no line was kept (False under Python 2, TypeError under 3)
handle_indentation(inputstr, add_newline, none_gt_zero) ==
    Only({ IF st.err # "" THEN [ended |-> "raise", err |-> st.err, text |-> <<>>, asserted |-> FALSE]
           ELSE IF st.prev_ind = no_prev_ind /\ none_gt_zero = "TypeError"
           THEN [ended |-> "raise", err |-> "TypeError", text |-> <<>>, asserted |-> FALSE]
           ELSE LET out_lines == IF add_newline THEN Append(st.out_lines, <<>>) ELSE st.out_lines
                    closed == IF st.prev_ind > 0
                              THEN [out_lines EXCEPT ![Len(out_lines)] =
                                        @ \o Repeat(closeindent, st.prev_ind)]
                              ELSE out_lines
                    text == join(<<NL>>, closed)
                IN  [ended |-> "return", err |-> "", text |-> text,
                     asserted |-> Count(text, openindent) = Count(text, closeindent)]
           : st \in {handle_indentation_loop(splitlines(inputstr), 1,
                         [out_lines |-> <<>>, prev_ind |-> no_prev_ind, err |-> ""])} })

(***************************************************************************)
(* Specification SpecIndentation: handle_indentation is called on lines    *)
(* indented by multiples of tabideal spaces, and on blank lines.           *)
(***************************************************************************)
MaxIndLines == 3

MaxIndLevel == 2

IndLines == { Repeat(SP, tabideal * k) \o <<"a">> : k \in 0..MaxIndLevel } \cup { <<SP>> }

InitIndentation ==
    /\ InitProcessor
    /\ version = None
    /\ strict = FALSE
    /\ \E n \in 1..MaxIndLines : \E ls \in [1..n -> IndLines] : \E add_newline \in BOOLEAN :
           call = [op |-> "handle_indentation", stage |-> "call", inputstr |-> join(<<NL>>, ls),
                   lines |-> ls, add_newline |-> add_newline,
                   result |-> [ended |-> None]]

HandleIndentation ==
    /\ call.op = "handle_indentation" /\ call.stage = "call"
    /\ \E none_gt_zero \in {"False", "TypeError"} :
       \E r \in {handle_indentation(call.inputstr, call.add_newline, none_gt_zero)} :
           call' = [call EXCEPT !.stage = "done", !.result = r]
    /\ UNCHANGED <<config, perparse>>

NextIndentation == HandleIndentation

SpecIndentation == InitIndentation /\ [][NextIndentation]_vars

nonblank_lines == SelectSeq(call.lines, LAMBDA l : rstrip(l) # <<>>)

indentation_handled ==
    /\ call.op = "handle_indentation" /\ call.stage = "done"
    /\ nonblank_lines # <<>>

\* C29: for an input whose non-blank lines are indented by multiples of
\* tabideal spaces, whatever the indentation of the first and of the last of
\* them, handle_indentation returns a text with as many openindents as
\* closeindents (its final assertion holds)
C29_OpensEqualCloses ==
    indentation_handled =>
        /\ call.result.ended = "return"
        /\ call.result.asserted
        /\ Count(call.result.text, openindent) = Count(call.result.text, closeindent)

\* what holds: the closeindents exceed the openindents by the level of the
\* first non-blank line
ClosesExceedOpensByFirstLevel ==
    indentation_handled =>
        /\ call.result.ended = "return"
        /\ Count(call.result.text, closeindent) =
               Count(call.result.text, openindent)
                   + Len(split_leading_indent(nonblank_lines[1])[1]) \div tabideal

\* a text that starts unindented and ends indented was handled
IndentedLastLineHandled ==
    /\ indentation_handled
    /\ Len(nonblank_lines) > 1
    /\ nonblank_lines[1] = <<"a">>
    /\ nonblank_lines[Len(nonblank_lines)] # <<"a">>
    /\ call.result.asserted

addskip_messages == {"invalid skip of line", "duplicate skip of line"}

\* C30: in the pipeline str_proc, passthrough_proc, ind_proc no call of
\* addskip raises: the line it is given is at least 1 and not yet in the
\* skips, so no pre-processor ends with "invalid skip" or "duplicate skip"
C30_AddskipNeverRaises ==
    (call.op = "pre" /\ call.stage = "raised") => call.err.msg \notin addskip_messages

\* witness: the three pre-processors each added a line to the skips: a
\* multi-line string, a multi-line passthrough and a backslash continuation
C30_Witness ==
    /\ call.op = "pre" /\ call.stage = "done"
    /\ Len(call.units) = 3
    /\ call.units[1].text = <<SQ, SQ, SQ, NL, SQ, SQ, SQ>>
    /\ call.units[2].text = <<BS, "(", NL, ")">>
    /\ call.units[3].text = <<"a", BS, NL, SP, "a">>
    /\ skips = {1, 3, 6}

(***************************************************************************)
(* Specification SpecAdjust: a skip set is built up by addskip, and        *)
(* adjust is called on it.                                                 *)
(***************************************************************************)
InitAdjust ==
    /\ strict = FALSE
    /\ version = None
    /\ using_autopep8 = FALSE
    /\ indchar = clean_indchar
    /\ refs = clean_refs
    /\ docstring = clean_docstring
    /\ ichain_count = clean_ichain_count
    /\ skips = clean_skips
    /\ call = NoCall

AddSkip ==
    \E s \in 1..MaxLine :
        /\ addskip_ok(skips, s)
        /\ skips' = addskip(skips, s)
        /\ call' = [op |-> "addskip", ln |-> s, result |-> 0]
        /\ UNCHANGED <<config, indchar, refs, docstring, ichain_count>>

Adjust ==
    \E ln \in 1..MaxLine :
        /\ call' = [op |-> "adjust", ln |-> ln, result |-> adjust(skips, ln)]
        /\ UNCHANGED <<config, perparse>>

NextAdjust == AddSkip \/ Adjust

SpecAdjust == InitAdjust /\ [][NextAdjust]_vars

\* C6 (as stated): adjust(L) = L + |{s \in SkipSet : s <= L}| for every L >= 1.
C6_AdjustIsLinePlusSkipsUpToLine ==
    call.op = "adjust" =>
        call.result = call.ln + Cardinality({s \in skips : s <= call.ln})

\* C6 (amended): adjust(L) is not a skipped line and equals L plus the number
\* of skipped lines up to adjust(L) itself (the skips are original line numbers).
C6_AdjustIsLinePlusSkipsUpToResult ==
    call.op = "adjust" =>
        /\ call.result \notin skips
        /\ call.result = call.ln + Cardinality({s \in skips : s <= call.result})

\* witness: adjust was called where the two formulas differ
C6_Witness ==
    /\ call.op = "adjust"
    /\ Cardinality({s \in skips : s <= call.result}) > Cardinality({s \in skips : s <= call.ln})

\* the positive line numbers up to n that are not skipped
unskipped_upto(n) == { k \in 1..n : k \notin skips }

\* C22: adjust(L) is the L-th smallest positive line number that is not in the
\* skip set: it is not skipped, exactly L unskipped lines lie at or below it,
\* and it is above adjust(l) for every smaller l.
C22_AdjustIsLthUnskippedLine ==
    call.op = "adjust" =>
        /\ call.result \notin skips
        /\ call.result >= 1
        /\ Cardinality(unskipped_upto(call.result)) = call.ln
        /\ \A l \in 1..(call.ln - 1) : adjust(skips, l) < call.result

\* witness: the third unskipped line of skips {1, 3, 4} is line 6
C22_Witness ==
    /\ call.op = "adjust"
    /\ skips = {1, 3, 4}
    /\ call.ln = 3
    /\ call.result = 6

=============================================================================
